---- MODULE Spec2Model ----
(***************************************************************************)
(* The MusicCast device bridge: the HTTP/JSON client                         *)
(* (uc_intg_musiccast/client.py), the media player and remote entities      *)
(* (media_player.py, remote.py) and the driver's polling loop and           *)
(* initialization (driver.py), as a state machine.                          *)
(*                                                                         *)
(* Python strings are sequences of one-character strings, so that the       *)
(* string conversions of the code (title(), replace(), lower(), slicing)    *)
(* are computed and not assumed.  None is the string "None".                *)
(***************************************************************************)
EXTENDS Integers, Sequences, FiniteSets, TLC

\* ---------------------------------------------------------------- bounds
\* Number of configured devices (each with a client, a media player and a remote).
NumDevices == 2
\* Number of commands the host sends in one behaviour.
MaxCmds == 1

Devices == 1..NumDevices

None == "None"

\* ------------------------------------------------------- Python strings
LowerChars ==
    << "a", "b", "c", "d", "e", "f", "g", "h", "i", "j", "k", "l", "m",
       "n", "o", "p", "q", "r", "s", "t", "u", "v", "w", "x", "y", "z" >>

UpperChars ==
    << "A", "B", "C", "D", "E", "F", "G", "H", "I", "J", "K", "L", "M",
       "N", "O", "P", "Q", "R", "S", "T", "U", "V", "W", "X", "Y", "Z" >>

IsLowerCh(c) == \E i \in 1..26 : LowerChars[i] = c

IsUpperCh(c) == \E i \in 1..26 : UpperChars[i] = c

IsCased(c) == IsLowerCh(c) \/ IsUpperCh(c)

ToUpperCh(c) ==
    IF IsLowerCh(c) THEN UpperChars[CHOOSE i \in 1..26 : LowerChars[i] = c] ELSE c

ToLowerCh(c) ==
    IF IsUpperCh(c) THEN LowerChars[CHOOSE i \in 1..26 : UpperChars[i] = c] ELSE c

\* str.title(): a cased character is upper-cased when the character before it
\* is not cased (or there is none) and lower-cased otherwise.
StrTitle(s) ==
    [i \in 1..Len(s) |->
        IF i > 1 /\ IsCased(s[i - 1]) THEN ToLowerCh(s[i]) ELSE ToUpperCh(s[i])]

\* str.lower()
StrLower(s) == [i \in 1..Len(s) |-> ToLowerCh(s[i])]

\* str.replace(old, new) for a non-empty old: every non-overlapping occurrence,
\* left to right.
RECURSIVE StrReplace(_, _, _)
StrReplace(s, old, new) ==
    IF Len(s) < Len(old) THEN s
    ELSE IF SubSeq(s, 1, Len(old)) = old
         THEN new \o StrReplace(SubSeq(s, Len(old) + 1, Len(s)), old, new)
         ELSE <<s[1]>> \o StrReplace(Tail(s), old, new)

\* str.startswith(prefix)
StartsWith(s, prefix) ==
    Len(s) >= Len(prefix) /\ SubSeq(s, 1, Len(prefix)) = prefix

\* s[n:]
StrFrom(s, n) == SubSeq(s, n + 1, Len(s))

\* List membership (x in list) and the elements of a list.
Range(seq) == {seq[i] : i \in 1..Len(seq)}

\* dict.get(key, default) on a table of <<key, value>> pairs.
DictGet(table, key, default) ==
    IF \E e \in table : e[1] = key
    THEN (CHOOSE e \in table : e[1] = key)[2]
    ELSE default

\* A variant of FallbackName without title(). C17 fails with it.
FallbackNameSpaced(id) == StrReplace(id, <<"_">>, <<" ">>)

\* id.replace("_", " ").title(): the display name of an unmapped id.
FallbackName(id) == StrTitle(StrReplace(id, <<"_">>, <<" ">>))

\* client.py get_available_inputs: the static id -> display name table, as <<id, name>> pairs.
input_name_mapping ==
    { << <<"h", "d", "m", "i", "1">>,
         <<"H", "D", "M", "I", " ", "1">> >>,
      << <<"h", "d", "m", "i", "2">>,
         <<"H", "D", "M", "I", " ", "2">> >>,
      << <<"h", "d", "m", "i", "3">>,
         <<"H", "D", "M", "I", " ", "3">> >>,
      << <<"h", "d", "m", "i", "4">>,
         <<"H", "D", "M", "I", " ", "4">> >>,
      << <<"h", "d", "m", "i", "5">>,
         <<"H", "D", "M", "I", " ", "5">> >>,
      << <<"h", "d", "m", "i", "6">>,
         <<"H", "D", "M", "I", " ", "6">> >>,
      << <<"h", "d", "m", "i", "7">>,
         <<"H", "D", "M", "I", " ", "7">> >>,
      << <<"a", "v", "1">>,
         <<"A", "V", " ", "1">> >>,
      << <<"a", "v", "2">>,
         <<"A", "V", " ", "2">> >>,
      << <<"a", "v", "3">>,
         <<"A", "V", " ", "3">> >>,
      << <<"a", "u", "d", "i", "o", "1">>,
         <<"A", "u", "d", "i", "o", " ", "1">> >>,
      << <<"a", "u", "d", "i", "o", "2">>,
         <<"A", "u", "d", "i", "o", " ", "2">> >>,
      << <<"a", "u", "d", "i", "o", "3">>,
         <<"A", "u", "d", "i", "o", " ", "3">> >>,
      << <<"a", "u", "d", "i", "o", "4">>,
         <<"A", "u", "d", "i", "o", " ", "4">> >>,
      << <<"b", "l", "u", "e", "t", "o", "o", "t", "h">>,
         <<"B", "l", "u", "e", "t", "o", "o", "t", "h">> >>,
      << <<"s", "p", "o", "t", "i", "f", "y">>,
         <<"S", "p", "o", "t", "i", "f", "y">> >>,
      << <<"a", "i", "r", "p", "l", "a", "y">>,
         <<"A", "i", "r", "P", "l", "a", "y">> >>,
      << <<"u", "s", "b">>,
         <<"U", "S", "B">> >>,
      << <<"t", "u", "n", "e", "r">>,
         <<"T", "u", "n", "e", "r">> >>,
      << <<"n", "e", "t", "_", "r", "a", "d", "i", "o">>,
         <<"N", "e", "t", " ", "R", "a", "d", "i", "o">> >>,
      << <<"p", "h", "o", "n", "o">>,
         <<"P", "h", "o", "n", "o">> >>,
      << <<"n", "a", "p", "s", "t", "e", "r">>,
         <<"N", "a", "p", "s", "t", "e", "r">> >>,
      << <<"q", "o", "b", "u", "z">>,
         <<"Q", "o", "b", "u", "z">> >>,
      << <<"t", "i", "d", "a", "l">>,
         <<"T", "i", "d", "a", "l">> >>,
      << <<"d", "e", "e", "z", "e", "r">>,
         <<"D", "e", "e", "z", "e", "r">> >>,
      << <<"a", "m", "a", "z", "o", "n", "_", "m", "u", "s", "i", "c">>,
         <<"A", "m", "a", "z", "o", "n", " ", "M", "u", "s", "i", "c">> >>,
      << <<"a", "l", "e", "x", "a">>,
         <<"A", "l", "e", "x", "a">> >>,
      << <<"s", "e", "r", "v", "e", "r">>,
         <<"S", "e", "r", "v", "e", "r">> >>,
      << <<"m", "c", "_", "l", "i", "n", "k">>,
         <<"M", "u", "s", "i", "c", "C", "a", "s", "t", " ", "L", "i", "n", "k">> >>,
      << <<"m", "a", "i", "n", "_", "s", "y", "n", "c">>,
         <<"M", "a", "i", "n", " ", "S", "y", "n", "c">> >>,
      << <<"t", "v">>,
         <<"T", "V">> >>,
      << <<"o", "p", "t", "i", "c", "a", "l", "1">>,
         <<"O", "p", "t", "i", "c", "a", "l", " ", "1">> >>,
      << <<"o", "p", "t", "i", "c", "a", "l", "2">>,
         <<"O", "p", "t", "i", "c", "a", "l", " ", "2">> >>,
      << <<"c", "o", "a", "x", "i", "a", "l", "1">>,
         <<"C", "o", "a", "x", "i", "a", "l", " ", "1">> >>,
      << <<"c", "o", "a", "x", "i", "a", "l", "2">>,
         <<"C", "o", "a", "x", "i", "a", "l", " ", "2">> >>,
      << <<"l", "i", "n", "e", "1">>,
         <<"L", "i", "n", "e", " ", "1">> >>,
      << <<"l", "i", "n", "e", "2">>,
         <<"L", "i", "n", "e", " ", "2">> >>,
      << <<"l", "i", "n", "e", "3">>,
         <<"L", "i", "n", "e", " ", "3">> >>,
      << <<"l", "i", "n", "e", "_", "c", "d">>,
         <<"L", "i", "n", "e", " ", "C", "D">> >>,
      << <<"j", "u", "k", "e">>,
         <<"J", "u", "k", "e">> >> }

\* media_player.py initialize_sources: sound program id -> friendly name.
sound_mode_mapping ==
    { << <<"m", "u", "n", "i", "c", "h">>,
         <<"M", "u", "n", "i", "c", "h", " ", "H", "a", "l", "l">> >>,
      << <<"v", "i", "e", "n", "n", "a">>,
         <<"V", "i", "e", "n", "n", "a", " ", "H", "a", "l", "l">> >>,
      << <<"a", "m", "s", "t", "e", "r", "d", "a", "m">>,
         <<"A", "m", "s", "t", "e", "r", "d", "a", "m", " ", "C", "o", "n", "c", "e", "r", "t", " ", "H", "a", "l", "l">> >>,
      << <<"f", "r", "e", "i", "b", "u", "r", "g">>,
         <<"F", "r", "e", "i", "b", "u", "r", "g", " ", "C", "a", "t", "h", "e", "d", "r", "a", "l">> >>,
      << <<"r", "o", "y", "a", "u", "m", "o", "n", "t">>,
         <<"R", "o", "y", "a", "u", "m", "o", "n", "t", " ", "A", "b", "b", "e", "y">> >>,
      << <<"c", "h", "a", "m", "b", "e", "r">>,
         <<"C", "h", "a", "m", "b", "e", "r", " ", "M", "u", "s", "i", "c">> >>,
      << <<"v", "i", "l", "l", "a", "g", "e", "_", "v", "a", "n", "g", "u", "a", "r", "d">>,
         <<"V", "i", "l", "l", "a", "g", "e", " ", "V", "a", "n", "g", "u", "a", "r", "d", " ", "J", "a", "z", "z", " ", "C", "l", "u", "b">> >>,
      << <<"w", "a", "r", "e", "h", "o", "u", "s", "e", "_", "l", "o", "f", "t">>,
         <<"W", "a", "r", "e", "h", "o", "u", "s", "e", " ", "L", "o", "f", "t">> >>,
      << <<"c", "e", "l", "l", "a", "r", "_", "c", "l", "u", "b">>,
         <<"C", "e", "l", "l", "a", "r", " ", "C", "l", "u", "b">> >>,
      << <<"r", "o", "x", "y", "_", "t", "h", "e", "a", "t", "r", "e">>,
         <<"R", "o", "x", "y", " ", "T", "h", "e", "a", "t", "r", "e">> >>,
      << <<"b", "o", "t", "t", "o", "m", "_", "l", "i", "n", "e">>,
         <<"B", "o", "t", "t", "o", "m", " ", "L", "i", "n", "e">> >>,
      << <<"s", "p", "o", "r", "t", "s">>,
         <<"S", "p", "o", "r", "t", "s">> >>,
      << <<"a", "c", "t", "i", "o", "n", "_", "g", "a", "m", "e">>,
         <<"A", "c", "t", "i", "o", "n", " ", "G", "a", "m", "e">> >>,
      << <<"r", "o", "l", "e", "p", "l", "a", "y", "i", "n", "g", "_", "g", "a", "m", "e">>,
         <<"R", "P", "G", " ", "G", "a", "m", "e">> >>,
      << <<"m", "u", "s", "i", "c", "_", "v", "i", "d", "e", "o">>,
         <<"M", "u", "s", "i", "c", " ", "V", "i", "d", "e", "o">> >>,
      << <<"r", "e", "c", "i", "t", "a", "l", "_", "o", "p", "e", "r", "a">>,
         <<"R", "e", "c", "i", "t", "a", "l", "/", "O", "p", "e", "r", "a">> >>,
      << <<"s", "t", "a", "n", "d", "a", "r", "d">>,
         <<"S", "t", "a", "n", "d", "a", "r", "d">> >>,
      << <<"s", "p", "e", "c", "t", "a", "c", "l", "e">>,
         <<"S", "p", "e", "c", "t", "a", "c", "l", "e">> >>,
      << <<"s", "c", "i", "-", "f", "i">>,
         <<"S", "c", "i", "-", "F", "i">> >>,
      << <<"a", "d", "v", "e", "n", "t", "u", "r", "e">>,
         <<"A", "d", "v", "e", "n", "t", "u", "r", "e">> >>,
      << <<"d", "r", "a", "m", "a">>,
         <<"D", "r", "a", "m", "a">> >>,
      << <<"m", "o", "n", "o", "_", "m", "o", "v", "i", "e">>,
         <<"M", "o", "n", "o", " ", "M", "o", "v", "i", "e">> >>,
      << <<"e", "n", "h", "a", "n", "c", "e", "d">>,
         <<"E", "n", "h", "a", "n", "c", "e", "d">> >>,
      << <<"2", "c", "h", "_", "s", "t", "e", "r", "e", "o">>,
         <<"2", "-", "C", "h", "a", "n", "n", "e", "l", " ", "S", "t", "e", "r", "e", "o">> >>,
      << <<"a", "l", "l", "_", "c", "h", "_", "s", "t", "e", "r", "e", "o">>,
         <<"A", "l", "l", " ", "C", "h", "a", "n", "n", "e", "l", " ", "S", "t", "e", "r", "e", "o">> >>,
      << <<"s", "u", "r", "r", "_", "d", "e", "c", "o", "d", "e", "r">>,
         <<"S", "u", "r", "r", "o", "u", "n", "d", " ", "D", "e", "c", "o", "d", "e", "r">> >>,
      << <<"s", "t", "r", "a", "i", "g", "h", "t">>,
         <<"S", "t", "r", "a", "i", "g", "h", "t">> >> }

\* media_player.py update_attributes: the shorter table used for the current sound mode.
current_sound_mode_mapping ==
    { << <<"m", "u", "n", "i", "c", "h">>,
         <<"M", "u", "n", "i", "c", "h", " ", "H", "a", "l", "l">> >>,
      << <<"v", "i", "e", "n", "n", "a">>,
         <<"V", "i", "e", "n", "n", "a", " ", "H", "a", "l", "l">> >>,
      << <<"a", "m", "s", "t", "e", "r", "d", "a", "m">>,
         <<"A", "m", "s", "t", "e", "r", "d", "a", "m", " ", "C", "o", "n", "c", "e", "r", "t", " ", "H", "a", "l", "l">> >>,
      << <<"2", "c", "h", "_", "s", "t", "e", "r", "e", "o">>,
         <<"2", "-", "C", "h", "a", "n", "n", "e", "l", " ", "S", "t", "e", "r", "e", "o">> >>,
      << <<"a", "l", "l", "_", "c", "h", "_", "s", "t", "e", "r", "e", "o">>,
         <<"A", "l", "l", " ", "C", "h", "a", "n", "n", "e", "l", " ", "S", "t", "e", "r", "e", "o">> >>,
      << <<"s", "t", "r", "a", "i", "g", "h", "t">>,
         <<"S", "t", "r", "a", "i", "g", "h", "t">> >>,
      << <<"s", "t", "a", "n", "d", "a", "r", "d">>,
         <<"S", "t", "a", "n", "d", "a", "r", "d">> >> }

\* media_player.py _handle_command: friendly name -> sound program id.
sound_mode_reverse_mapping ==
    { << <<"M", "u", "n", "i", "c", "h", " ", "H", "a", "l", "l">>,
         <<"m", "u", "n", "i", "c", "h">> >>,
      << <<"V", "i", "e", "n", "n", "a", " ", "H", "a", "l", "l">>,
         <<"v", "i", "e", "n", "n", "a">> >>,
      << <<"A", "m", "s", "t", "e", "r", "d", "a", "m", " ", "C", "o", "n", "c", "e", "r", "t", " ", "H", "a", "l", "l">>,
         <<"a", "m", "s", "t", "e", "r", "d", "a", "m">> >>,
      << <<"2", "-", "C", "h", "a", "n", "n", "e", "l", " ", "S", "t", "e", "r", "e", "o">>,
         <<"2", "c", "h", "_", "s", "t", "e", "r", "e", "o">> >>,
      << <<"A", "l", "l", " ", "C", "h", "a", "n", "n", "e", "l", " ", "S", "t", "e", "r", "e", "o">>,
         <<"a", "l", "l", "_", "c", "h", "_", "s", "t", "e", "r", "e", "o">> >>,
      << <<"S", "t", "r", "a", "i", "g", "h", "t">>,
         <<"s", "t", "r", "a", "i", "g", "h", "t">> >>,
      << <<"S", "t", "a", "n", "d", "a", "r", "d">>,
         <<"s", "t", "a", "n", "d", "a", "r", "d">> >>,
      << <<"S", "p", "o", "r", "t", "s">>,
         <<"s", "p", "o", "r", "t", "s">> >>,
      << <<"A", "c", "t", "i", "o", "n", " ", "G", "a", "m", "e">>,
         <<"a", "c", "t", "i", "o", "n", "_", "g", "a", "m", "e">> >>,
      << <<"R", "P", "G", " ", "G", "a", "m", "e">>,
         <<"r", "o", "l", "e", "p", "l", "a", "y", "i", "n", "g", "_", "g", "a", "m", "e">> >> }

\* ------------------------------------------------------------ the devices
\* What a device reports in system/getFeatures for zone "main": the zone's
\* input_list and sound_program_list, and the "max" of its range_step entry
\* "volume" (has_volume_range is FALSE when the zone lists no such entry).
\* Odd and even devices are two different receiver models.
Features(d) ==
    IF d % 2 = 1
    THEN [ input_list |-> << <<"h", "d", "m", "i", "1">>, <<"n", "e", "t", "_", "r", "a", "d", "i", "o">>, <<"m", "y", "_", "c", "u", "s", "t", "o", "m", "_", "i", "n", "p", "u", "t">> >>,
           sound_program_list |-> << <<"m", "u", "n", "i", "c", "h">>, <<"v", "i", "l", "l", "a", "g", "e", "_", "v", "a", "n", "g", "u", "a", "r", "d">>, <<"m", "y", "_", "m", "o", "d", "e">> >>,
           has_volume_range |-> TRUE,
           volume_max |-> 100 ]
    ELSE [ input_list |-> << <<"s", "p", "o", "t", "i", "f", "y">>, <<"h", "d", "m", "i", "1">> >>,
           sound_program_list |-> << <<"2", "c", "h", "_", "s", "t", "e", "r", "e", "o">>, <<"s", "t", "r", "a", "i", "g", "h", "t">> >>,
           has_volume_range |-> FALSE,
           volume_max |-> 0 ]

\* max_volume as the device reports it in <zone>/getStatus.
StatusMaxVolume(d) == IF d % 2 = 1 THEN 100 ELSE 60

\* The device's own state when the bridge starts: odd devices in standby,
\* even devices switched on and playing.
InitialDevice(d) ==
    IF d % 2 = 1
    THEN [ power |-> "standby", volume |-> 20, mute |-> FALSE,
           input |-> <<"h", "d", "m", "i", "1">>, sound_program |-> <<"m", "u", "n", "i", "c", "h">>,
           playback |-> "stop", repeat |-> "off", shuffle |-> "off" ]
    ELSE [ power |-> "on", volume |-> 30, mute |-> FALSE,
           input |-> <<"s", "p", "o", "t", "i", "f", "y">>, sound_program |-> <<"s", "t", "r", "a", "i", "g", "h", "t">>,
           playback |-> "play", repeat |-> "off", shuffle |-> "off" ]

Min2(a, b) == IF a <= b THEN a ELSE b

Max2(a, b) == IF a >= b THEN a ELSE b

\* The effect on the device of a request it answers with response_code 0
\* (the vendor API, as the simulator implements it; volume=up|down&step=N is
\* the receiver form client.set_volume sends).
DeviceApply(d, dev, req) ==
    LET p == req.params IN
    CASE req.ep = "setPower" ->
           LET pw == IF p.power = "toggle"
                     THEN (IF dev.power = "standby" THEN "on" ELSE "standby")
                     ELSE p.power
           IN [dev EXCEPT !.power = pw,
                          !.playback = IF pw = "standby" THEN "stop" ELSE @]
      [] req.ep = "setVolume" ->
           LET cur == dev.volume
               st  == IF "step" \in DOMAIN p THEN p.step ELSE 0
               nv  == IF "volume" \in DOMAIN p
                      THEN (IF "int" \in DOMAIN p.volume THEN p.volume.int
                            ELSE IF p.volume.str = "up" THEN cur + st ELSE cur - st)
                      ELSE cur + st
           IN [dev EXCEPT !.volume = Max2(0, Min2(StatusMaxVolume(d), nv))]
      [] req.ep = "setMute" -> [dev EXCEPT !.mute = (p.enable = "true")]
      [] req.ep = "setInput" -> [dev EXCEPT !.input = p.input]
      [] req.ep = "setSoundProgram" -> [dev EXCEPT !.sound_program = p.program]
      [] req.ep = "setPlayback" ->
           [dev EXCEPT !.playback =
               CASE p.playback = "toggle" -> (IF @ = "play" THEN "pause" ELSE "play")
                 [] p.playback \in {"play", "pause", "stop"} -> p.playback
                 [] OTHER -> (IF @ # "stop" THEN "play" ELSE @)]
      [] req.ep = "setRepeat" -> [dev EXCEPT !.repeat = p.repeat]
      [] req.ep = "setShuffle" -> [dev EXCEPT !.shuffle = p.shuffle]
      [] req.ep = "toggleRepeat" ->
           [dev EXCEPT !.repeat = CASE @ = "off" -> "one" [] @ = "one" -> "all"
                                    [] OTHER -> "off"]
      [] req.ep = "toggleShuffle" ->
           [dev EXCEPT !.shuffle = IF @ = "off" THEN "on" ELSE "off"]
      [] req.ep = "recallPreset" -> [dev EXCEPT !.playback = "play"]
      [] OTHER -> dev

\* ------------------------------------------------------------ transport
\* What can come back for one GET: a network error (aiohttp.ClientError), a
\* timeout, or an HTTP response with a status and a JSON body whose
\* response_code is present (has_code) or missing.
Responses ==
    { [net |-> "ok", http |-> 200, has_code |-> TRUE, code |-> c] : c \in {0, 3, 4, 5} }
    \cup { [net |-> "ok", http |-> 200, has_code |-> FALSE, code |-> 0],
           [net |-> "ok", http |-> 503, has_code |-> TRUE, code |-> 0],
           [net |-> "ClientError", http |-> 0, has_code |-> FALSE, code |-> 0],
           [net |-> "TimeoutError", http |-> 0, has_code |-> FALSE, code |-> 0] }

\* A variant of ResponseCode that reads a missing response_code as 0. C4 fails
\* with it.
ResponseCodeOrZero(resp) == IF resp.has_code THEN resp.code ELSE 0

\* data.get("response_code", -1)
ResponseCode(resp) == IF resp.has_code THEN resp.code ELSE -1

\* A variant of MakeRequest that decodes the body whatever the HTTP status.
\* C15 fails with it.
MakeRequestAnyStatus(resp) ==
    IF resp.net # "ok" THEN "DeviceNotReachableError"
    ELSE IF ResponseCode(resp) # 0
         THEN (IF ResponseCode(resp) \in {3, 4} THEN "InvalidParameterError"
               ELSE "YamahaMusicCastError")
    ELSE "return"

\* client._make_request: "return" when the decoded JSON is returned, else the
\* class of the exception raised.
MakeRequest(resp) ==
    IF resp.net # "ok" THEN "DeviceNotReachableError"
    ELSE IF resp.http # 200 THEN "DeviceNotReachableError"
    ELSE IF ResponseCode(resp) # 0
         THEN (IF ResponseCode(resp) = 3 THEN "InvalidParameterError"
               ELSE IF ResponseCode(resp) = 4 THEN "InvalidParameterError"
               ELSE "YamahaMusicCastError")
    ELSE "return"

NoParams == << >>

Req(ep, params) == [ep |-> ep, params |-> params]

NoReq == Req("none", NoParams)

\* DeviceStatus.from_api_response on the body of <zone>/getStatus.
DeviceStatus(d, dev) ==
    [ power |-> dev.power, volume |-> dev.volume, max_volume |-> StatusMaxVolume(d),
      mute |-> dev.mute, input |-> dev.input, input_text |-> << >>,
      sound_program |-> dev.sound_program ]

\* PlayInfo.from_api_response on the body of netusb/getPlayInfo.
PlayInfo(d, dev) ==
    [ playback |-> dev.playback, repeat |-> dev.repeat, shuffle |-> dev.shuffle,
      track |-> d, artist |-> d, album |-> d, albumart_url |-> d,
      total_time |-> 180, play_time |-> 45 ]

\* ------------------------------------------------------------- the client
\* The methods YamahaMusicCastClient defines; a call of any other name raises
\* AttributeError.
ClientMethods ==
    { "get_device_info", "get_features", "get_status", "set_power", "set_volume",
      "set_mute", "set_input", "set_sound_program", "set_tone_control",
      "get_play_info", "set_playback", "set_repeat", "set_shuffle",
      "recall_preset", "get_preset_info", "get_list_info", "set_list_control",
      "manage_play", "toggle_shuffle", "toggle_repeat", "get_available_inputs",
      "get_available_sound_programs", "discover_devices", "verify_device" }

\* set_volume(volume=...): the maximum read from the cached features, 161 when
\* the zone lists no volume range.
DefaultMaxVol == 161

FeaturesMaxVol(features) ==
    IF features.has_volume_range THEN features.volume_max ELSE DefaultMaxVol

\* set_volume(volume=v): params["volume"] = max(0, min(max_vol, volume))
SetVolumeAbsolute(features, volume) ==
    Req("setVolume",
        [volume |-> [int |-> Max2(0, Min2(FeaturesMaxVol(features), volume))]])

\* set_volume(direction=up|down, step=N): volume=<direction>&step=N
SetVolumeDirection(direction, step) ==
    Req("setVolume", [volume |-> [str |-> direction], step |-> step])

\* A variant of PlaybackCommand without the membership test: whatever the
\* mapping gives is transmitted. C13 fails with it.
PlaybackCommandUnchecked(playback) ==
    IF playback = "play_pause" THEN "toggle" ELSE playback

\* set_playback: command_mapping.get(playback, playback), which must be one of
\* the mapping's values; "invalid" stands for the InvalidParameterError raised.
PlaybackCommand(playback) ==
    LET actual == IF playback = "play_pause" THEN "toggle" ELSE playback
    IN IF actual \in {"toggle", "play", "pause", "stop", "next", "previous"}
       THEN actual ELSE "invalid"

\* A variant of ValidRepeat that also lets the host's spelling through. C14
\* fails with it.
ValidRepeatAnyCase(repeat) == repeat \in {"off", "one", "all", "OFF", "ONE", "ALL"}

\* set_repeat: repeat in ["off", "one", "all"]
ValidRepeat(repeat) == repeat \in {"off", "one", "all"}

\* set_shuffle: shuffle in ["off", "on"]
ValidShuffle(shuffle) == shuffle \in {"off", "on"}

\* A variant of ValidPreset whose range starts at 0. C11 fails with it.
ValidPresetFromZero(num) == 0 <= num /\ num <= 40

\* recall_preset: 1 <= num <= 40
ValidPreset(num) == 1 <= num /\ num <= 40

\* get_available_inputs, features fetched: one entry per id of the zone's
\* input_list, named from the table or by the fallback transform.
AvailableInputs(features) ==
    [i \in 1..Len(features.input_list) |->
        [ id |-> features.input_list[i],
          name |-> DictGet(input_name_mapping, features.input_list[i],
                           FallbackName(features.input_list[i])) ]]

\* get_available_inputs, features fetch failed: the hardcoded list.
FallbackInputs ==
    << [id |-> <<"s", "p", "o", "t", "i", "f", "y">>, name |-> <<"S", "p", "o", "t", "i", "f", "y">>],
       [id |-> <<"b", "l", "u", "e", "t", "o", "o", "t", "h">>, name |-> <<"B", "l", "u", "e", "t", "o", "o", "t", "h">>],
       [id |-> <<"h", "d", "m", "i", "1">>, name |-> <<"H", "D", "M", "I", " ", "1">>],
       [id |-> <<"a", "u", "d", "i", "o", "1">>, name |-> <<"A", "u", "d", "i", "o", " ", "1">>] >>

\* ------------------------------------------------------ the media player
\* IEEE-754 double results that fall just below the exact integer: the pairs
\* <<percentage, max_volume>>, 0 <= percentage <= 100 and 1 <= max_volume <= 201,
\* for which (percentage / 100) * max_volume is an integer n exactly and the
\* double product is below n, so that int() gives n - 1.
PercentageUndershoot ==
    { <<58, 50>>, <<70, 90>>, <<29, 100>>, <<57, 100>>, <<58, 100>>, <<82, 150>>,
      <<70, 170>>, <<35, 180>>, <<70, 180>>, <<29, 200>>, <<57, 200>>, <<58, 200>> }

\* The same for (volume / max_volume) * 100, 0 <= volume <= max_volume <= 201.
VolumeUndershoot ==
    { <<29, 50>>, <<29, 100>>, <<57, 100>>, <<58, 100>>, <<87, 150>>,
      <<58, 200>>, <<114, 200>>, <<116, 200>> }

\* int(x) of the quotient n / k, k > 0: truncation toward zero.
TruncDiv(n, k) == IF n >= 0 THEN n \div k ELSE -((-n) \div k)

\* min(100, max(0, int((volume / max_volume) * 100))), 0 when max_volume <= 0
convert_volume_to_percentage(volume, max_volume) ==
    IF max_volume <= 0 THEN 0
    ELSE Min2(100, Max2(0, TruncDiv(volume * 100, max_volume)
                           - (IF <<volume, max_volume>> \in VolumeUndershoot
                              THEN 1 ELSE 0)))

\* A variant of convert_percentage_to_volume without its min and max: the
\* truncated product alone. C1 fails with it.
convert_percentage_unclamped(percentage, max_volume) ==
    TruncDiv(percentage * max_volume, 100)
    - (IF <<percentage, max_volume>> \in PercentageUndershoot THEN 1 ELSE 0)

\* min(max_volume, max(0, int((percentage / 100) * max_volume)))
convert_percentage_to_volume(percentage, max_volume) ==
    Min2(max_volume, Max2(0, TruncDiv(percentage * max_volume, 100)
                             - (IF <<percentage, max_volume>> \in PercentageUndershoot
                                THEN 1 ELSE 0)))

\* _build_initial_attributes
InitialAttributes ==
    [ state |-> "STANDBY", volume |-> 0, muted |-> FALSE,
      source_list |-> << >>, source |-> << >>,
      sound_mode_list |-> << >>, sound_mode |-> << >> ]

\* The friendly names of initialize_sources for a list of sound programs.
SoundModeNames(programs) ==
    [i \in 1..Len(programs) |->
        DictGet(sound_mode_mapping, programs[i], FallbackName(programs[i]))]

SourceNames(sources) == [i \in 1..Len(sources) |-> sources[i].name]

\* A variant of InitializeSources whose except clause installs nothing. C16
\* fails with it.
InitializeSourcesNoFallback(d, fetched) ==
    IF fetched
    THEN [ sources |-> AvailableInputs(Features(d)),
           programs |-> Features(d).sound_program_list,
           attributes |->
               [InitialAttributes EXCEPT
                   !.source_list = SourceNames(AvailableInputs(Features(d))),
                   !.sound_mode_list =
                       SoundModeNames(Features(d).sound_program_list)] ]
    ELSE [ sources |-> << >>, programs |-> << >>, attributes |-> InitialAttributes ]

\* The media player after initialize_sources. fetched: whether get_features
\* returned; when it raised, the handler's three-entry fallback is installed
\* and the sound programs stay empty.
InitializeSources(d, fetched) ==
    IF fetched
    THEN [ sources |-> AvailableInputs(Features(d)),
           programs |-> Features(d).sound_program_list,
           attributes |->
               [InitialAttributes EXCEPT
                   !.source_list = SourceNames(AvailableInputs(Features(d))),
                   !.sound_mode_list =
                       SoundModeNames(Features(d).sound_program_list)] ]
    ELSE [ sources |-> SubSeq(FallbackInputs, 1, 3),
           programs |-> << >>,
           attributes |->
               [InitialAttributes EXCEPT
                   !.source_list = SourceNames(SubSeq(FallbackInputs, 1, 3))] ]

\* The remote after initialize_capabilities: get_available_inputs and
\* get_available_sound_programs each catch a failed features fetch (the
\* hardcoded inputs, no programs); the has_tuner call that follows raises
\* AttributeError, which the method catches after both lists are stored.
InitializeCapabilities(d, inputs_fetched, programs_fetched) ==
    [ sources |-> IF inputs_fetched THEN AvailableInputs(Features(d))
                  ELSE FallbackInputs,
      programs |-> IF programs_fetched THEN Features(d).sound_program_list
                   ELSE << >>,
      state |-> "ON" ]

\* -------------------------------------------------- steps of a handler
\* What a command handler does next: send a request and continue in a phase
\* when it is answered, return a status without sending, or raise (which the
\* handler's except clause turns into SERVER_ERROR).
Send(req, phase) ==
    [kind |-> "send", req |-> req, phase |-> phase, status |-> None, exc |-> None]

Return(status) ==
    [kind |-> "return", req |-> NoReq, phase |-> "none", status |-> status, exc |-> None]

\* A variant of Raise in which the handler's except clause returns OK. C5
\* fails with it.
RaiseAsOk(exc) ==
    [kind |-> "return", req |-> NoReq, phase |-> "none", status |-> "OK", exc |-> exc]

Raise(exc) ==
    [kind |-> "raise", req |-> NoReq, phase |-> "none", status |-> "SERVER_ERROR",
     exc |-> exc]

\* One call self._client.<method>(...) whose request is the handler's last:
\* the local validation of the method, then its request.
ClientCall(method, arg) ==
    IF method \notin ClientMethods THEN Raise("AttributeError")
    ELSE CASE method = "set_playback" ->
                IF PlaybackCommand(arg) = "invalid" THEN Raise("InvalidParameterError")
                ELSE Send(Req("setPlayback", [playback |-> PlaybackCommand(arg)]), "last")
           [] method = "set_power" -> Send(Req("setPower", [power |-> arg]), "last")
           [] method = "set_volume" -> Send(SetVolumeDirection(arg.direction, arg.step), "last")
           [] method = "set_mute" ->
                Send(Req("setMute", [enable |-> IF arg THEN "true" ELSE "false"]), "last")
           [] method = "set_input" -> Send(Req("setInput", [input |-> arg]), "last")
           [] method = "set_sound_program" ->
                Send(Req("setSoundProgram", [program |-> arg]), "last")
           [] method = "set_repeat" ->
                IF ~ValidRepeat(arg) THEN Raise("InvalidParameterError")
                ELSE Send(Req("setRepeat", [repeat |-> arg]), "last")
           [] method = "set_shuffle" ->
                IF ~ValidShuffle(arg) THEN Raise("InvalidParameterError")
                ELSE Send(Req("setShuffle", [shuffle |-> arg]), "last")
           [] method = "recall_preset" ->
                IF ~ValidPreset(arg) THEN Raise("InvalidParameterError")
                ELSE Send(Req("recallPreset", [zone |-> "main", num |-> arg]), "last")
           [] method = "manage_play" ->
                IF arg \notin {"thumbs_up", "thumbs_down"}
                THEN Raise("InvalidParameterError")
                ELSE Send(Req("managePlay", [type |-> arg, timeout |-> 60000]), "last")
           [] method = "set_list_control" ->
                Send(Req("setListControl",
                         [list_id |-> "main", type |-> arg, zone |-> "main"]), "last")
           [] method = "toggle_repeat" -> Send(Req("toggleRepeat", NoParams), "last")
           [] method = "toggle_shuffle" -> Send(Req("toggleShuffle", NoParams), "last")
           [] method = "get_status" -> Send(Req("getStatus", NoParams), arg)
           [] OTHER -> Raise("TypeError")

\* params and key in params
HasParam(params, key) == key \in DOMAIN params

\* A variant of ResolveSource that forwards a name it does not find, lower-cased
\* with underscores, as the sound-mode resolution does. C2 fails with it.
ResolveSourceUnchecked(sources, source_name) ==
    LET hits == {i \in 1..Len(sources) : sources[i].name = source_name}
    IN IF hits = {} THEN StrReplace(StrLower(source_name), <<" ">>, <<"_">>)
       ELSE sources[CHOOSE i \in hits : \A j \in hits : i <= j].id

\* The source id SELECT_SOURCE resolves a display name to: the id of the first
\* available source of that name, << >> (None) when there is none.
ResolveSource(sources, source_name) ==
    LET hits == {i \in 1..Len(sources) : sources[i].name = source_name}
    IN IF hits = {} THEN << >>
       ELSE sources[CHOOSE i \in hits : \A j \in hits : i <= j].id

\* The program id SELECT_SOUND_MODE resolves a display name to: the reverse
\* table, else the first available program whose title-cased id is the name,
\* else the name lower-cased with spaces turned into underscores. << >> stands
\* for None and for the empty string, which the code treats alike (not x).
ResolveSoundMode(programs, sound_mode_name) ==
    LET p1   == DictGet(sound_mode_reverse_mapping, sound_mode_name, << >>)
        hits == {i \in 1..Len(programs) : FallbackName(programs[i]) = sound_mode_name}
        p2   == IF p1 # << >> THEN p1
                ELSE IF hits = {} THEN << >>
                ELSE programs[CHOOSE i \in hits : \A j \in hits : i <= j]
    IN IF p2 # << >> THEN p2
       ELSE StrReplace(StrLower(sound_mode_name), <<" ">>, <<"_">>)

\* A variant of ProgramAvailable that accepts every non-empty id. C3 fails
\* with it.
ProgramAccepted(programs, program_id) == program_id # << >>

\* program_id in self._available_sound_programs
ProgramAvailable(programs, program_id) == program_id \in Range(programs)

\* YamahaMusicCastMediaPlayer._handle_command up to its first request.
\* e is the entity (its sources, programs and attributes), c the command.
MediaPlayerCommand(e, c) ==
    LET id == c.cmd_id
        p  == c.params
    IN CASE id = "PLAY" -> ClientCall("set_playback", "play")
         [] id = "PAUSE" -> ClientCall("set_playback", "pause")
         [] id = "PLAY_PAUSE" -> ClientCall("set_playback", "play_pause")
         [] id = "STOP" -> ClientCall("set_playback", "stop")
         [] id = "NEXT" -> ClientCall("set_playback", "next")
         [] id = "PREVIOUS" -> ClientCall("set_playback", "previous")
         [] id = "VOLUME_UP" -> ClientCall("set_volume", [direction |-> "up", step |-> 1])
         [] id = "VOLUME_DOWN" ->
              ClientCall("set_volume", [direction |-> "down", step |-> 1])
         [] id = "MUTE_TOGGLE" -> ClientCall("set_mute", ~e.attributes.muted)
         [] id = "on" -> ClientCall("set_power", "on")
         [] id = "off" -> ClientCall("set_power", "standby")
         [] id = "play_pause" -> ClientCall("set_playback", "play_pause")
         [] id = "stop" -> ClientCall("set_playback", "stop")
         [] id = "next" -> ClientCall("set_playback", "next")
         [] id = "previous" -> ClientCall("set_playback", "previous")
         [] id = "volume" /\ HasParam(p, "volume") -> ClientCall("get_status", "volume")
         [] id = "volume_up" -> ClientCall("set_volume", [direction |-> "up", step |-> 1])
         [] id = "volume_down" ->
              ClientCall("set_volume", [direction |-> "down", step |-> 1])
         [] id = "mute_toggle" -> ClientCall("set_mute", ~e.attributes.muted)
         [] id = "repeat" /\ HasParam(p, "repeat") ->
              ClientCall("set_repeat",
                         CASE p.repeat = "OFF" -> "off" [] p.repeat = "ONE" -> "one"
                           [] p.repeat = "ALL" -> "all" [] OTHER -> "off")
         [] id = "shuffle" /\ HasParam(p, "shuffle") ->
              ClientCall("set_shuffle", IF p.shuffle THEN "on" ELSE "off")
         [] id = "select_source" /\ HasParam(p, "source") ->
              IF ResolveSource(e.sources, p.source) # << >>
              THEN ClientCall("set_input", ResolveSource(e.sources, p.source))
              ELSE Return("BAD_REQUEST")
         [] id = "select_sound_mode" /\ HasParam(p, "sound_mode") ->
              IF ResolveSoundMode(e.programs, p.sound_mode) # << >>
                 /\ ProgramAvailable(e.programs,
                                     ResolveSoundMode(e.programs, p.sound_mode))
              THEN ClientCall("set_sound_program",
                              ResolveSoundMode(e.programs, p.sound_mode))
              ELSE Return("BAD_REQUEST")
         [] OTHER -> Return("NOT_IMPLEMENTED")

\* ------------------------------------------------------------- the remote
\* sub in s
StrContains(s, sub) ==
    \E i \in 0..(Len(s) - Len(sub)) : SubSeq(s, i + 1, i + Len(sub)) = sub

\* s.split("_")
RECURSIVE StrSplit(_)
StrSplit(s) ==
    IF \A i \in 1..Len(s) : s[i] # "_" THEN <<s>>
    ELSE LET k == CHOOSE i \in 1..Len(s) :
                      s[i] = "_" /\ \A j \in 1..(i - 1) : s[j] # "_"
         IN <<SubSeq(s, 1, k - 1)>> \o StrSplit(SubSeq(s, k + 1, Len(s)))

Digits == << "0", "1", "2", "3", "4", "5", "6", "7", "8", "9" >>

IsDigit(c) == \E i \in 1..10 : Digits[i] = c

DigitValue(c) == (CHOOSE i \in 1..10 : Digits[i] = c) - 1

RECURSIVE DigitsValue(_)
DigitsValue(s) ==
    IF s = << >> THEN 0 ELSE 10 * DigitsValue(SubSeq(s, 1, Len(s) - 1)) + DigitValue(s[Len(s)])

\* int(s) for decimal digits with an optional sign; ok is FALSE where int()
\* raises ValueError.
ParseInt(s) ==
    LET body == IF s # << >> /\ s[1] \in {"-", "+"} THEN Tail(s) ELSE s
    IN IF body = << >> \/ \E i \in 1..Len(body) : ~IsDigit(body[i])
       THEN [ok |-> FALSE, value |-> 0]
       ELSE [ok |-> TRUE,
             value |-> IF s[1] = "-" THEN -DigitsValue(body) ELSE DigitsValue(body)]

\* The commands MusicCastRemote._handle_command compares for equality, each
\* with the client method it calls and the argument it passes, in the order of
\* the elif chain. "phase:" arguments of get_status name what the handler does
\* with the status it fetched.
RemoteExact ==
    { << <<"p", "l", "a", "y", "_", "p", "a", "u", "s", "e">>, "set_playback", "play_pause" >>,
      << <<"p", "l", "a", "y">>, "set_playback", "play" >>,
      << <<"p", "a", "u", "s", "e">>, "set_playback", "pause" >>,
      << <<"s", "t", "o", "p">>, "set_playback", "stop" >>,
      << <<"n", "e", "x", "t">>, "set_playback", "next" >>,
      << <<"p", "r", "e", "v", "i", "o", "u", "s">>, "set_playback", "previous" >>,
      << <<"p", "o", "w", "e", "r", "_", "o", "n">>, "set_power", "on" >>,
      << <<"p", "o", "w", "e", "r", "_", "o", "f", "f">>, "set_power", "standby" >>,
      << <<"p", "o", "w", "e", "r", "_", "t", "o", "g", "g", "l", "e">>, "set_power", "toggle" >>,
      << <<"v", "o", "l", "u", "m", "e", "_", "u", "p">>, "set_volume", [direction |-> "up", step |-> 4] >>,
      << <<"v", "o", "l", "u", "m", "e", "_", "d", "o", "w", "n">>, "set_volume", [direction |-> "down", step |-> 4] >>,
      << <<"m", "u", "t", "e", "_", "t", "o", "g", "g", "l", "e">>, "get_status", "mute_status" >>,
      << <<"r", "e", "p", "e", "a", "t", "_", "o", "f", "f">>, "set_repeat", "off" >>,
      << <<"r", "e", "p", "e", "a", "t", "_", "o", "n", "e">>, "set_repeat", "one" >>,
      << <<"r", "e", "p", "e", "a", "t", "_", "a", "l", "l">>, "set_repeat", "all" >>,
      << <<"r", "e", "p", "e", "a", "t", "_", "t", "o", "g", "g", "l", "e">>, "toggle_repeat", "" >>,
      << <<"s", "h", "u", "f", "f", "l", "e", "_", "o", "f", "f">>, "set_shuffle", "off" >>,
      << <<"s", "h", "u", "f", "f", "l", "e", "_", "o", "n">>, "set_shuffle", "on" >>,
      << <<"s", "h", "u", "f", "f", "l", "e", "_", "t", "o", "g", "g", "l", "e">>, "toggle_shuffle", "" >>,
      << <<"e", "n", "h", "a", "n", "c", "e", "r", "_", "o", "n">>, "set_enhancer", TRUE >>,
      << <<"e", "n", "h", "a", "n", "c", "e", "r", "_", "o", "f", "f">>, "set_enhancer", FALSE >>,
      << <<"e", "n", "h", "a", "n", "c", "e", "r", "_", "t", "o", "g", "g", "l", "e">>, "get_status", "attribute_error" >>,
      << <<"p", "u", "r", "e", "_", "d", "i", "r", "e", "c", "t", "_", "o", "n">>, "set_pure_direct", TRUE >>,
      << <<"p", "u", "r", "e", "_", "d", "i", "r", "e", "c", "t", "_", "o", "f", "f">>, "set_pure_direct", FALSE >>,
      << <<"p", "u", "r", "e", "_", "d", "i", "r", "e", "c", "t", "_", "t", "o", "g", "g", "l", "e">>, "get_status", "attribute_error" >>,
      << <<"s", "u", "r", "r", "o", "u", "n", "d", "_", "a", "i", "_", "o", "n">>, "set_surround_ai", TRUE >>,
      << <<"s", "u", "r", "r", "o", "u", "n", "d", "_", "a", "i", "_", "o", "f", "f">>, "set_surround_ai", FALSE >>,
      << <<"s", "u", "r", "r", "o", "u", "n", "d", "_", "a", "i", "_", "t", "o", "g", "g", "l", "e">>, "get_status", "attribute_error" >>,
      << <<"e", "x", "t", "r", "a", "_", "b", "a", "s", "s", "_", "o", "n">>, "set_extra_bass", TRUE >>,
      << <<"e", "x", "t", "r", "a", "_", "b", "a", "s", "s", "_", "o", "f", "f">>, "set_extra_bass", FALSE >>,
      << <<"e", "x", "t", "r", "a", "_", "b", "a", "s", "s", "_", "t", "o", "g", "g", "l", "e">>, "get_status", "attribute_error" >>,
      << <<"a", "d", "a", "p", "t", "i", "v", "e", "_", "d", "r", "c", "_", "o", "n">>, "set_adaptive_drc", TRUE >>,
      << <<"a", "d", "a", "p", "t", "i", "v", "e", "_", "d", "r", "c", "_", "o", "f", "f">>, "set_adaptive_drc", FALSE >>,
      << <<"a", "d", "a", "p", "t", "i", "v", "e", "_", "d", "r", "c", "_", "t", "o", "g", "g", "l", "e">>, "get_status", "attribute_error" >>,
      << <<"s", "l", "e", "e", "p", "_", "o", "f", "f">>, "set_sleep", 0 >>,
      << <<"s", "l", "e", "e", "p", "_", "3", "0">>, "set_sleep", 30 >>,
      << <<"s", "l", "e", "e", "p", "_", "6", "0">>, "set_sleep", 60 >>,
      << <<"s", "l", "e", "e", "p", "_", "9", "0">>, "set_sleep", 90 >>,
      << <<"s", "l", "e", "e", "p", "_", "1", "2", "0">>, "set_sleep", 120 >>,
      << <<"c", "u", "r", "s", "o", "r", "_", "u", "p">>, "set_cursor", "up" >>,
      << <<"c", "u", "r", "s", "o", "r", "_", "d", "o", "w", "n">>, "set_cursor", "down" >>,
      << <<"c", "u", "r", "s", "o", "r", "_", "l", "e", "f", "t">>, "set_cursor", "left" >>,
      << <<"c", "u", "r", "s", "o", "r", "_", "r", "i", "g", "h", "t">>, "set_cursor", "right" >>,
      << <<"c", "u", "r", "s", "o", "r", "_", "s", "e", "l", "e", "c", "t">>, "set_cursor", "select" >>,
      << <<"c", "u", "r", "s", "o", "r", "_", "r", "e", "t", "u", "r", "n">>, "set_cursor", "return" >>,
      << <<"m", "e", "n", "u", "_", "o", "n", "_", "s", "c", "r", "e", "e", "n">>, "set_menu", "on_screen" >>,
      << <<"m", "e", "n", "u", "_", "t", "o", "p", "_", "m", "e", "n", "u">>, "set_menu", "top_menu" >>,
      << <<"m", "e", "n", "u", "_", "m", "e", "n", "u">>, "set_menu", "menu" >>,
      << <<"m", "e", "n", "u", "_", "o", "p", "t", "i", "o", "n">>, "set_menu", "option" >>,
      << <<"m", "e", "n", "u", "_", "d", "i", "s", "p", "l", "a", "y">>, "set_menu", "display" >>,
      << <<"m", "e", "n", "u", "_", "h", "o", "m", "e">>, "set_menu", "home" >>,
      << <<"t", "h", "u", "m", "b", "s", "_", "u", "p">>, "manage_play", "thumbs_up" >>,
      << <<"t", "h", "u", "m", "b", "s", "_", "d", "o", "w", "n">>, "manage_play", "thumbs_down" >>,
      << <<"l", "i", "s", "t", "_", "r", "e", "t", "u", "r", "n">>, "set_list_control", "return" >> }

\* The commands of RemoteExact that come before the prefix tests of the chain
\* (playback, power, volume, mute, repeat and shuffle).
RemoteEarly ==
    {e \in RemoteExact :
        e[2] \in {"set_playback", "set_power", "set_volume", "set_repeat",
                  "set_shuffle", "toggle_repeat", "toggle_shuffle"}
        \/ e[1] = <<"m", "u", "t", "e", "_", "t", "o", "g", "g", "l", "e">>}

\* MusicCastRemote._handle_command up to its first request. e is the remote
\* (its sources and programs), c the command; command is params.get("command"),
\* << >> for None.
RemoteCommand(e, c) ==
    LET command == IF HasParam(c.params, "command") THEN c.params.command ELSE << >> IN
    IF ~(c.cmd_id = "send_cmd" /\ command # << >>) THEN Return("BAD_REQUEST")
    ELSE IF \E x \in RemoteEarly : x[1] = command
    THEN LET x == CHOOSE x \in RemoteEarly : x[1] = command
         IN ClientCall(x[2], x[3])
    ELSE IF StartsWith(command, <<"i", "n", "p", "u", "t", "_">>)
    THEN IF \E i \in 1..Len(e.sources) : e.sources[i].id = StrFrom(command, 6)
         THEN ClientCall("set_input", StrFrom(command, 6))
         ELSE Return("BAD_REQUEST")
    ELSE IF StartsWith(command, <<"s", "o", "u", "n", "d", "_">>)
    THEN IF ProgramAvailable(e.programs, StrFrom(command, 6))
         THEN ClientCall("set_sound_program", StrFrom(command, 6))
         ELSE Return("BAD_REQUEST")
    ELSE IF StartsWith(command, <<"p", "r", "e", "s", "e", "t", "_">>)
    THEN IF ~ParseInt(StrFrom(command, 7)).ok THEN Return("BAD_REQUEST")
         ELSE IF 1 <= ParseInt(StrFrom(command, 7)).value
                 /\ ParseInt(StrFrom(command, 7)).value <= 40
         THEN ClientCall("recall_preset", ParseInt(StrFrom(command, 7)).value)
         ELSE Return("BAD_REQUEST")
    ELSE IF StartsWith(command, <<"t", "u", "n", "e", "r", "_">>) /\ StrContains(command, <<"_", "p", "r", "e", "s", "e", "t", "_">>)
    THEN IF Len(StrSplit(command)) >= 4
         THEN IF ~ParseInt(StrSplit(command)[4]).ok THEN Raise("ValueError")
              ELSE IF 1 <= ParseInt(StrSplit(command)[4]).value
                      /\ ParseInt(StrSplit(command)[4]).value <= 40
              THEN ClientCall("recall_tuner_preset", StrSplit(command)[2])
              ELSE Return("BAD_REQUEST")
         ELSE Return("OK")
    ELSE IF command = <<"t", "u", "n", "e", "r", "_", "p", "r", "e", "s", "e", "t", "_", "u", "p">> THEN ClientCall("switch_tuner_preset", "up")
    ELSE IF command = <<"t", "u", "n", "e", "r", "_", "p", "r", "e", "s", "e", "t", "_", "d", "o", "w", "n">> THEN ClientCall("switch_tuner_preset", "down")
    ELSE IF StartsWith(command, <<"s", "c", "e", "n", "e", "_">>)
    THEN IF ~ParseInt(StrFrom(command, 6)).ok THEN Raise("ValueError")
         ELSE IF 1 <= ParseInt(StrFrom(command, 6)).value
                 /\ ParseInt(StrFrom(command, 6)).value <= 8
         THEN ClientCall("set_scene", ParseInt(StrFrom(command, 6)).value)
         ELSE Return("BAD_REQUEST")
    ELSE IF \E x \in RemoteExact : x[1] = command
    THEN LET x == CHOOSE x \in RemoteExact : x[1] = command
         IN ClientCall(x[2], x[3])
    ELSE Return("NOT_IMPLEMENTED")

\* ------------------------------------------------------ update_attributes
MediaKeys ==
    { "media_title", "media_artist", "media_album", "media_image_url",
      "media_duration", "media_position" }


\* A variant of NewState that looks at the playback state before the power
\* state. C30 fails with it.
NewStatePlaybackFirst(status, play_info) ==
    CASE play_info.playback = "play" -> "PLAYING"
      [] play_info.playback = "pause" -> "PAUSED"
      [] OTHER -> IF status.power = "on" THEN "ON" ELSE "STANDBY"

\* States.ON / STANDBY, refined by the playback state when the zone is on.
NewState(status, play_info) ==
    IF status.power = "on"
    THEN CASE play_info.playback = "play" -> "PLAYING"
           [] play_info.playback = "pause" -> "PAUSED"
           [] OTHER -> "ON"
    ELSE "STANDBY"

\* The display name of the current input: the available source of that id,
\* else input_text, else the title-cased id.
CurrentSource(sources, status) ==
    LET hits == {i \in 1..Len(sources) : sources[i].id = status.input}
    IN IF hits # {} THEN sources[CHOOSE i \in hits : \A j \in hits : i <= j].name
       ELSE IF status.input_text # << >> THEN status.input_text
       ELSE FallbackName(status.input)


\* A variant of UpdateAttributes that refreshes STATE alone and keeps every
\* other attribute as it was. C21 fails with it.
UpdateAttributesStateOnly(e, status, play_info) ==
    [e.attributes EXCEPT !.state = NewState(status, play_info)]

\* The try block of update_attributes once status and play info are fetched:
\* the attribute map it leaves. e is the media player.
UpdateAttributes(e, status, play_info) ==
    LET a0 == [e.attributes EXCEPT
                  !.state = NewState(status, play_info),
                  !.volume = convert_volume_to_percentage(status.volume,
                                                          status.max_volume),
                  !.muted = status.mute,
                  !.source = CurrentSource(e.sources, status),
                  !.sound_mode =
                      IF status.sound_program # << >> /\ e.programs # << >>
                      THEN DictGet(current_sound_mode_mapping, status.sound_program,
                                   FallbackName(status.sound_program))
                      ELSE @]
    IN IF NewState(status, play_info) \in {"PLAYING", "PAUSED"}
       THEN [ media_title |-> play_info.track, media_artist |-> play_info.artist,
              media_album |-> play_info.album,
              media_image_url |-> play_info.albumart_url,
              media_duration |-> play_info.total_time,
              media_position |-> play_info.play_time,
              media_position_updated_at |-> "utcnow",
              repeat |-> play_info.repeat,
              shuffle |-> (play_info.shuffle = "on") ] @@ a0
       ELSE [k \in (DOMAIN a0) \ MediaKeys |-> a0[k]]

\* A variant of UpdateFailed that leaves STATE as it was. C8 fails with it.
UpdateFailedKept(e) == e.attributes

\* The except block of update_attributes.
UpdateFailed(e) == [e.attributes EXCEPT !.state = "UNAVAILABLE"]

\* ------------------------------------------------------------ entity ids
\* The id of a configured device (the key of config.devices).
DeviceId(d) == << "d", "e", "v", Digits[(d % 10) + 1] >>

\* driver: media_player_id = f"musiccast_{device_id}_media_player", the
\* identifier YamahaMusicCastMediaPlayer registers under.
MediaPlayerId(d) == <<"m", "u", "s", "i", "c", "c", "a", "s", "t", "_">> \o DeviceId(d) \o <<"_", "m", "e", "d", "i", "a", "_", "p", "l", "a", "y", "e", "r">>

\* driver: remote_id = f"musiccast_{device_id}_remote", handed to
\* MusicCastRemote, whose identifier is f"{device_id}_remote" of what it is given.
RemoteId(d) == (<<"m", "u", "s", "i", "c", "c", "a", "s", "t", "_">> \o DeviceId(d) \o <<"_", "r", "e", "m", "o", "t", "e">>) \o <<"_", "r", "e", "m", "o", "t", "e">>

\* remote: self.id.replace('_remote', '_media_player')
CompanionId(d) == StrReplace(RemoteId(d), <<"_", "r", "e", "m", "o", "t", "e">>, <<"_", "m", "e", "d", "i", "a", "_", "p", "l", "a", "y", "e", "r">>)

\* ------------------------------------------------------------- the state
VARIABLES
    device,     \* device[d]: the receiver's own state
    caps,       \* caps[d]: client._device_capabilities is set (features cached)
    mp,         \* mp[d]: the media player: sources, programs, attributes
    rm,         \* rm[d]: the remote: sources, programs, state
    host,       \* host[d]: the media player attributes last pushed to the host
    task,       \* task[t]: a command handler and the deferred update it spawns
    periodic,   \* the periodic_update task
    driver      \* the driver's globals

vars == << device, caps, mp, rm, host, task, periodic, driver >>

Tasks == 1..MaxCmds

\* configured_entities.get(id): the device whose media player has this id, 0
\* when no entity has it (None).
MediaPlayerById(id) ==
    IF \E d \in Range(driver.media_players) : MediaPlayerId(d) = id
    THEN CHOOSE d \in Range(driver.media_players) : MediaPlayerId(d) = id
    ELSE 0

\* remote._get_current_mute_state: the companion's muted attribute, False when
\* the lookup finds no entity.
CurrentMuteState(d) ==
    IF MediaPlayerById(CompanionId(d)) # 0
    THEN mp[MediaPlayerById(CompanionId(d))].attributes.muted
    ELSE FALSE

NoStatus == DeviceStatus(0, InitialDevice(0))

NoResponse == [net |-> "none", http |-> 0, has_code |-> FALSE, code |-> 0]

NoCommand == [cmd_id |-> "none", params |-> NoParams]

\* A handler's record: where it is (pc), the entity and device it runs for,
\* the command, the request in flight and what the handler does when it is
\* answered (phase), the requests sent so far, the status returned, the
\* exception caught, the last response, set_volume's argument, the device a
\* deferred update polls and the status it fetched, and how that update ended.
IdleTask ==
    [ pc |-> "idle", ent |-> "none", dev |-> 0, target |-> 0, cmd |-> NoCommand,
      phase |-> "none", req |-> NoReq, nreq |-> 0, status |-> None, exc |-> None,
      resp |-> NoResponse, device_volume |-> 0, snap |-> NoStatus,
      refresh |-> "none" ]

\* ------------------------------------------------------------ the inputs
\* The commands the host sends to a media player in the runs checked.
MediaPlayerCommands ==
    { [cmd_id |-> id, params |-> NoParams] :
          id \in {"on", "off", "play_pause", "volume_up", "mute_toggle",
                  "select_source", "browse"} }
    \cup { [cmd_id |-> "volume", params |-> [volume |-> v]] : v \in {-5, 29, 130} }
    \cup { [cmd_id |-> "select_source", params |-> [source |-> s]] :
               s \in {<<"H", "D", "M", "I", " ", "1">>, <<"B", "l", "u", "e", "t", "o", "o", "t", "h">>, <<"P", "h", "o", "n", "o">>} }
    \cup { [cmd_id |-> "select_sound_mode", params |-> [sound_mode |-> s]] :
               s \in {<<"M", "u", "n", "i", "c", "h", " ", "H", "a", "l", "l">>, <<"M", "y", " ", "M", "o", "d", "e">>, <<"V", "i", "e", "n", "n", "a", " ", "H", "a", "l", "l">>,
                      <<"V", "i", "l", "l", "a", "g", "e", " ", "V", "a", "n", "g", "u", "a", "r", "d", " ", "J", "a", "z", "z", " ", "C", "l", "u", "b">>} }

\* The commands the host sends to a remote in the runs checked.
RemoteCommands ==
    { [cmd_id |-> "send_cmd", params |-> [command |-> s]] :
          s \in {<<"p", "o", "w", "e", "r", "_", "o", "n">>, <<"p", "l", "a", "y">>, <<"m", "u", "t", "e", "_", "t", "o", "g", "g", "l", "e">>, <<"i", "n", "p", "u", "t", "_", "h", "d", "m", "i", "1">>,
                 <<"i", "n", "p", "u", "t", "_", "p", "h", "o", "n", "o">>, <<"s", "o", "u", "n", "d", "_", "m", "u", "n", "i", "c", "h">>, <<"s", "o", "u", "n", "d", "_", "v", "i", "e", "n", "n", "a">>,
                 <<"p", "r", "e", "s", "e", "t", "_", "4", "1">>, <<"e", "n", "h", "a", "n", "c", "e", "r", "_", "o", "n">>, <<"b", "r", "o", "w", "s", "e">>} }
    \cup { [cmd_id |-> "send_cmd", params |-> NoParams] }

\* driver._initialize_integration, the three calls that end the setup of one
\* device: initialize_sources, initialize_capabilities and update_attributes.
\* failures is the number of failed system/getFeatures fetches (the media
\* player's, the remote's for the inputs, the remote's for the programs; once
\* one succeeds the features are cached); refresh is whether the first
\* update_attributes fetched status and play info.
SetupOutcomes == [failures : 0..3, refresh : BOOLEAN]

SetupMediaPlayer(d, o) ==
    LET e == InitializeSources(d, o.failures = 0)
    IN [e EXCEPT !.attributes =
            IF o.refresh
            THEN UpdateAttributes(e, DeviceStatus(d, InitialDevice(d)),
                                  PlayInfo(d, InitialDevice(d)))
            ELSE UpdateFailed(e)]

SetupRemote(d, o) == InitializeCapabilities(d, o.failures <= 1, o.failures <= 2)

\* The coroutines of the driver that run _initialize_integration: the task
\* main creates, the CONNECT listener, the SUBSCRIBE_ENTITIES listener and the
\* setup handler (the task it creates, or its own await).
DriverTasks == {"main", "connect", "subscribe", "setup"}

\* Where a coroutine is once its run of _initialize_integration is over: a
\* task created for the run has ended, a listener is ready for the next event.
EndPc(p) == IF p \in {"main", "setup"} THEN "done" ELSE "idle"

\* The record of the setup message handled last: its type, the device_count of
\* the most recent DriverSetupRequest (0: none yet), which function handled
\* the message and the action returned to the host.
NoSetup == [msg |-> "none", device_count |-> 0, handled |-> "none", action |-> "none"]

\* The driver's globals once _initialize_integration has set up every device:
\* entities_ready, api.device_state, the keys of media_players in insertion
\* order, the holder of initialization_lock (None: free), what the
\* configuration holds (is_configured, the enabled devices), the devices that
\* answer system/getDeviceInfo with response_code 0, the devices a request was
\* sent to, whether a run of _initialize_integration went through its device
\* loop to the end, where each coroutine is, setup_state and the record of the
\* setup message handled last.
ReadyDriver ==
    [ entities_ready |-> TRUE, device_state |-> "CONNECTED",
      media_players |-> [i \in 1..NumDevices |-> i],
      lock |-> None, configured |-> TRUE, enabled |-> Devices,
      reachable |-> Devices, contacted |-> Devices, initialized |-> TRUE,
      init |-> [p \in DriverTasks |->
                    [pc |-> IF p = "main" THEN "done" ELSE "idle", k |-> 0,
                     connected_devices |-> 0]],
      setup_state |-> [step |-> "initial", device_count |-> 1],
      setup |-> NoSetup ]

\* The periodic task between passes; cancel is the task's pending cancellation
\* (Task.cancel() was called and CancelledError is not yet delivered). Two fields record the order of status
\* fetches, not anything the task stores: newer, the deferred updates that
\* fetched the status of the polled media player after the poll in flight
\* fetched the one it holds; stale, the deferred updates that hold a status
\* fetched before, and different from, one the loop has applied since.
IdlePeriodic ==
    [pc |-> "sleep", idx |-> 0, snap |-> NoStatus, polled |-> {}, failed |-> {},
     newer |-> {}, stale |-> {}, cancel |-> FALSE]

\* Every device's entities as _initialize_integration is written to leave
\* them for a device it connects: constructed, given the client, registered
\* and initialized, whatever the outcome of the fetches of that setup. (The
\* driver's own path to this state is SpecDriver's subject.)
Init ==
    \E o \in [Devices -> SetupOutcomes] :
        /\ device = [d \in Devices |-> InitialDevice(d)]
        /\ caps = [d \in Devices |-> o[d].failures < 3]
        /\ mp = [d \in Devices |-> SetupMediaPlayer(d, o[d])]
        /\ rm = [d \in Devices |-> SetupRemote(d, o[d])]
        /\ host = [d \in Devices |-> SetupMediaPlayer(d, o[d]).attributes]
        /\ task = [t \in Tasks |-> IdleTask]
        /\ periodic = IdlePeriodic
        /\ driver = ReadyDriver

\* ------------------------------------------------------- command handlers
Sleep(phase) ==
    [kind |-> "sleep", req |-> NoReq, phase |-> phase, status |-> None, exc |-> None]

\* The handler's record after a step of the handler.
TaskAfter(tk, step) ==
    [tk EXCEPT
        !.pc = CASE step.kind = "send" -> "wait"
                 [] step.kind = "sleep" -> "sleep"
                 [] step.kind = "return" /\ step.status = "OK" -> "deferred"
                 [] OTHER -> "done",
        !.phase = step.phase,
        !.req = IF step.kind = "send" THEN step.req ELSE @,
        !.nreq = IF step.kind = "send" THEN @ + 1 ELSE @,
        !.status = step.status,
        !.exc = step.exc]

\* The host calls the command handler of the media player or the remote of
\* device d: the handler runs to its first request, or to its return.
HandleCommand(t, ent, d, c) ==
    /\ task[t].pc = "idle"
    /\ \A u \in Tasks : u < t => task[u].pc # "idle"
    /\ task' = [task EXCEPT ![t] =
           TaskAfter([IdleTask EXCEPT !.ent = ent, !.dev = d, !.cmd = c],
                     IF ent = "media_player" THEN MediaPlayerCommand(mp[d], c)
                     ELSE RemoteCommand(rm[d], c))]
    /\ UNCHANGED << device, caps, mp, rm, host, periodic, driver >>

\* What a handler does once a request of its own was answered with
\* response_code 0. dev is the device's state when it answered.
Continue(tk, dev) ==
    LET status == DeviceStatus(tk.dev, dev) IN
    CASE tk.phase = "last" -> Return("OK")
      [] tk.phase = "volume" ->
           IF caps[tk.dev]
           THEN Send(SetVolumeAbsolute(Features(tk.dev),
                         convert_percentage_to_volume(tk.cmd.params.volume,
                                                      status.max_volume)), "last")
           ELSE Send(Req("getFeatures", NoParams), "volume_features")
      [] tk.phase = "volume_features" ->
           Send(SetVolumeAbsolute(Features(tk.dev), tk.device_volume), "last")
      [] tk.phase = "mute_status" ->
           IF status.power = "standby"
           THEN Send(Req("setPower", [power |-> "on"]), "mute_power")
           ELSE Send(Req("setMute",
                         [enable |-> IF ~CurrentMuteState(tk.dev) THEN "true"
                                     ELSE "false"]), "last")
      [] tk.phase = "mute_power" -> Sleep("mute_sleep")
      [] OTHER -> Raise("AttributeError")

\* The request a handler awaits is answered (or fails): _make_request returns
\* or raises, and the handler runs on to its next request or to its return.
CommandResponse(t, resp) ==
    LET tk == task[t]
        d  == tk.dev
        ok == MakeRequest(resp) = "return"
        dev == IF ok THEN DeviceApply(d, device[d], tk.req) ELSE device[d]
    IN /\ tk.pc = "wait"
       /\ device' = [device EXCEPT ![d] = dev]
       /\ caps' = [caps EXCEPT ![d] = @ \/ (ok /\ tk.req.ep = "getFeatures")]
       /\ task' = [task EXCEPT ![t] =
              IF ok
              THEN TaskAfter([tk EXCEPT !.resp = resp,
                                 !.device_volume =
                                     IF tk.phase = "volume"
                                     THEN convert_percentage_to_volume(
                                              tk.cmd.params.volume,
                                              DeviceStatus(d, dev).max_volume)
                                     ELSE @],
                             Continue(tk, dev))
              ELSE TaskAfter([tk EXCEPT !.resp = resp], Raise(MakeRequest(resp)))]
       /\ UNCHANGED << mp, rm, host, periodic, driver >>

\* remote mute_toggle: asyncio.sleep(1) after the power-on is over; the
\* handler reads the companion's muted attribute and sends setMute.
MuteSleepDone(t) ==
    /\ task[t].pc = "sleep"
    /\ task' = [task EXCEPT ![t] =
           TaskAfter(@, Send(Req("setMute",
                                 [enable |-> IF ~CurrentMuteState(task[t].dev)
                                             THEN "true" ELSE "false"]), "last"))]
    /\ UNCHANGED << device, caps, mp, rm, host, periodic, driver >>

\* --------------------------------------------------------------- refreshes
\* update_attributes of the media player of device m ends in its except
\* block: STATE becomes UNAVAILABLE and the map is pushed to the host.
RefreshFailed(m) ==
    /\ mp' = [mp EXCEPT ![m].attributes = UpdateFailed(mp[m])]
    /\ host' = [host EXCEPT ![m] = UpdateFailed(mp[m])]

\* update_attributes of the media player of device m ends in its try block:
\* the map is rebuilt from the status fetched earlier and the play info that
\* has just arrived, and pushed to the host.
RefreshDone(m, status) ==
    /\ mp' = [mp EXCEPT ![m].attributes =
                  UpdateAttributes(mp[m], status, PlayInfo(m, device[m]))]
    /\ host' = [host EXCEPT ![m] =
                    UpdateAttributes(mp[m], status, PlayInfo(m, device[m]))]

\* The entity a deferred update refreshes: the media player itself, or for a
\* remote the entity configured_entities holds under the companion id (0: none).
DeferredTarget(tk) ==
    IF tk.ent = "media_player" THEN tk.dev
    ELSE MediaPlayerById(CompanionId(tk.dev))

\* _deferred_update once its asyncio.sleep(0.5) is over: update_attributes
\* sends its getStatus, or, when the remote finds no companion, nothing.
DeferredUpdate(t) ==
    LET tk == task[t] IN
    /\ tk.pc = "deferred"
    /\ task' = [task EXCEPT ![t] =
           IF DeferredTarget(tk) = 0
           THEN [tk EXCEPT !.pc = "done"]
           ELSE [tk EXCEPT !.pc = "status", !.target = DeferredTarget(tk),
                           !.req = Req("getStatus", NoParams), !.nreq = @ + 1]]
    /\ UNCHANGED << device, caps, mp, rm, host, periodic, driver >>

\* The periodic task's record once deferred update t has fetched a status of
\* media player m: t is newer than the poll of m in flight, if there is one.
FetchedAfterPoll(t, m) ==
    IF periodic.pc = "play_info" /\ driver.media_players[periodic.idx] = m
    THEN [periodic EXCEPT !.newer = @ \cup {t}]
    ELSE periodic

\* The deferred update's getStatus is answered.
DeferredStatus(t, resp) ==
    LET tk == task[t] IN
    /\ tk.pc = "status"
    /\ IF MakeRequest(resp) = "return"
       THEN /\ task' = [task EXCEPT ![t] =
                   [tk EXCEPT !.pc = "play_info",
                              !.snap = DeviceStatus(tk.target, device[tk.target]),
                              !.req = Req("getPlayInfo", NoParams), !.nreq = @ + 1]]
            /\ periodic' = FetchedAfterPoll(t, tk.target)
            /\ UNCHANGED << mp, host >>
       ELSE /\ task' = [task EXCEPT ![t] = [tk EXCEPT !.pc = "done",
                                                       !.refresh = "failed"]]
            /\ RefreshFailed(tk.target)
            /\ UNCHANGED periodic
    /\ UNCHANGED << device, caps, rm, driver >>

\* The deferred update's getPlayInfo is answered.
DeferredPlayInfo(t, resp) ==
    /\ task[t].pc = "play_info"
    /\ IF MakeRequest(resp) = "return"
       THEN /\ task' = [task EXCEPT ![t] = [@ EXCEPT !.pc = "done",
                                                      !.refresh = "done"]]
            /\ RefreshDone(task[t].target, task[t].snap)
       ELSE /\ task' = [task EXCEPT ![t] = [@ EXCEPT !.pc = "done",
                                                      !.refresh = "failed"]]
            /\ RefreshFailed(task[t].target)
    /\ UNCHANGED << device, caps, rm, periodic, driver >>

\* ----------------------------------------------------------- periodic_update
\* A variant of NextPolled in which a failed update ends the pass of the loop
\* (the exception reaching the loop's own except clause). C7 fails with it.
NextPolledUntilFailure(idx, outcome) ==
    IF outcome # "failed" /\ idx < Len(driver.media_players) THEN idx + 1 ELSE 0

\* The loop's position once the update of the idx-th media player is over
\* (update_attributes never raises): the next media player, 0 after the last.
NextPolled(idx, outcome) ==
    IF idx < Len(driver.media_players) THEN idx + 1 ELSE 0

\* The periodic task's record once the update of the current media player
\* ended with this outcome; the remote's update_attributes that follows sends
\* nothing (its capabilities are initialized) and leaves STATE at ON.
PeriodicAfter(outcome) ==
    LET m == driver.media_players[periodic.idx]
        n == NextPolled(periodic.idx, outcome)
    IN [ pc |-> IF n = 0 THEN "sleep" ELSE "status", idx |-> n, snap |-> NoStatus,
         polled |-> periodic.polled \cup {m},
         failed |-> IF outcome = "failed" THEN periodic.failed \cup {m}
                    ELSE periodic.failed,
         newer |-> {},
         stale |-> IF outcome = "done"
                   THEN periodic.stale
                        \cup {t \in Tasks \ periodic.newer :
                                 /\ task[t].pc = "play_info" /\ task[t].target = m
                                 /\ task[t].snap # periodic.snap}
                   ELSE periodic.stale,
         cancel |-> periodic.cancel ]

\* asyncio.sleep(5.0) is over and the loop's condition holds: the first media
\* player's update_attributes sends its getStatus.
PeriodicTick ==
    /\ periodic.pc = "sleep" /\ ~periodic.cancel
    /\ driver.device_state = "CONNECTED"
    /\ driver.media_players # << >>
    /\ driver.entities_ready
    /\ periodic' = [IdlePeriodic EXCEPT !.pc = "status", !.idx = 1,
                                        !.stale = periodic.stale]
    /\ UNCHANGED << device, caps, mp, rm, host, task, driver >>

\* The periodic update's getStatus is answered.
PeriodicStatus(resp) ==
    LET m == driver.media_players[periodic.idx] IN
    /\ periodic.pc = "status" /\ ~periodic.cancel
    /\ IF MakeRequest(resp) = "return"
       THEN /\ periodic' = [periodic EXCEPT !.pc = "play_info",
                                            !.snap = DeviceStatus(m, device[m])]
            /\ UNCHANGED << mp, rm, host >>
       ELSE /\ periodic' = PeriodicAfter("failed")
            /\ RefreshFailed(m)
            /\ rm' = [rm EXCEPT ![m].state = "ON"]
    /\ UNCHANGED << device, caps, task, driver >>

\* The periodic update's getPlayInfo is answered.
PeriodicPlayInfo(resp) ==
    LET m == driver.media_players[periodic.idx] IN
    /\ periodic.pc = "play_info" /\ ~periodic.cancel
    /\ IF MakeRequest(resp) = "return"
       THEN /\ periodic' = PeriodicAfter("done")
            /\ RefreshDone(m, periodic.snap)
       ELSE /\ periodic' = PeriodicAfter("failed")
            /\ RefreshFailed(m)
    /\ rm' = [rm EXCEPT ![m].state = "ON"]
    /\ UNCHANGED << device, caps, task, driver >>


\* A variant of ExceptException in which CancelledError too is an Exception
\* (as it was before Python 3.8). C22 fails with it.
ExceptExceptionAny(exc) == TRUE

\* Whether a clause `except Exception` catches this exception:
\* asyncio.CancelledError derives from BaseException, everything the client
\* raises from Exception.
ExceptException(exc) == exc # "CancelledError"

\* The periodic task is cancelled (the event loop cancels the tasks left when
\* it shuts down): the cancellation is pending until the task is resumed.
PeriodicCancel ==
    /\ periodic.pc \in {"sleep", "status", "play_info"} /\ ~periodic.cancel
    /\ periodic' = [periodic EXCEPT !.cancel = TRUE]
    /\ UNCHANGED << device, caps, mp, rm, host, task, driver >>

\* The cancelled task is resumed: CancelledError is raised at the await it is
\* suspended in, asyncio.sleep or a request of update_attributes. From
\* update_attributes it passes the method's `except Exception` to the loop's
\* `except asyncio.CancelledError`, which breaks out of the loop.
PeriodicCancelled ==
    LET m == driver.media_players[periodic.idx] IN
    /\ periodic.cancel /\ periodic.pc \in {"sleep", "status", "play_info"}
    /\ IF periodic.pc \in {"status", "play_info"} /\ ExceptException("CancelledError")
       THEN /\ periodic' = [PeriodicAfter("failed") EXCEPT !.cancel = FALSE]
            /\ RefreshFailed(m)
            /\ rm' = [rm EXCEPT ![m].state = "ON"]
       ELSE /\ periodic' = [periodic EXCEPT !.pc = "done"]
            /\ UNCHANGED << mp, rm, host >>
    /\ UNCHANGED << device, caps, task, driver >>

\* ------------------------------------------------------------ the system
Next ==
    \/ \E t \in Tasks, d \in Devices :
           \/ \E c \in MediaPlayerCommands : HandleCommand(t, "media_player", d, c)
           \/ \E c \in RemoteCommands : HandleCommand(t, "remote", d, c)
    \/ \E t \in Tasks, resp \in Responses : CommandResponse(t, resp)
    \/ \E t \in Tasks : MuteSleepDone(t)
    \/ \E t \in Tasks : DeferredUpdate(t)
    \/ \E t \in Tasks, resp \in Responses : DeferredStatus(t, resp)
    \/ \E t \in Tasks, resp \in Responses : DeferredPlayInfo(t, resp)
    \/ PeriodicTick
    \/ \E resp \in Responses : PeriodicStatus(resp)
    \/ \E resp \in Responses : PeriodicPlayInfo(resp)

Spec == Init /\ [][Next]_vars

\* The periodic task on its own, from its start to its cancellation, with no
\* command from the host. A pending cancellation is delivered: the event loop
\* resumes a cancelled task.
NextPeriodic ==
    \/ PeriodicTick
    \/ \E resp \in Responses : PeriodicStatus(resp)
    \/ \E resp \in Responses : PeriodicPlayInfo(resp)
    \/ PeriodicCancel
    \/ PeriodicCancelled

SpecPeriodic == Init /\ [][NextPeriodic]_vars /\ WF_vars(PeriodicCancelled)

\* ------------------------------------------------------------- the driver
\* The fields of config.MusicCastDeviceConfig.
ConfigFields == {"id", "name", "address", "port", "enabled", "standby_monitoring"}

\* The parameters YamahaMusicCastClient.__init__ accepts.
ClientInitParams == {"ip_address", "timeout"}

\* _initialize_integration, the try block of one enabled device up to the
\* identity query: the log call reads device_config.use_ssl, the constructor
\* is called with port= and use_ssl=, then get_device_info is awaited. The
\* result is "return" when the query returned, else the exception raised.
ConnectDevice(resp) ==
    IF "use_ssl" \notin ConfigFields THEN "AttributeError"
    ELSE IF ~({"port", "use_ssl"} \subseteq ClientInitParams) THEN "TypeError"
    ELSE MakeRequest(resp)

\* An entity before the driver has set it up.
NoMediaPlayer ==
    [sources |-> << >>, programs |-> << >>, attributes |-> InitialAttributes]

NoRemote == [sources |-> << >>, programs |-> << >>, state |-> "ON"]

InitDriver ==
    \E c \in BOOLEAN, en \in SUBSET Devices, re \in SUBSET Devices :
        /\ device = [d \in Devices |-> InitialDevice(d)]
        /\ caps = [d \in Devices |-> FALSE]
        /\ mp = [d \in Devices |-> NoMediaPlayer]
        /\ rm = [d \in Devices |-> NoRemote]
        /\ host = [d \in Devices |-> InitialAttributes]
        /\ task = [t \in Tasks |-> IdleTask]
        /\ periodic = IdlePeriodic
        /\ driver =
               [ entities_ready |-> FALSE, device_state |-> "DISCONNECTED",
                 media_players |-> << >>, lock |-> None, configured |-> c,
                 enabled |-> en, reachable |-> re, contacted |-> {},
                 initialized |-> FALSE,
                 init |-> [p \in DriverTasks |->
                               [pc |-> IF p = "main" THEN "start" ELSE "idle",
                                k |-> 0, connected_devices |-> 0]],
                 setup_state |-> [step |-> "initial", device_count |-> 1],
                 setup |-> NoSetup ]

\* main: with a configuration, create_task(_initialize_integration()); without
\* one, set_device_state(DISCONNECTED). The listeners are added here.
Main ==
    /\ driver.init["main"].pc = "start"
    /\ driver' = IF driver.configured
                 THEN [driver EXCEPT !.init["main"].pc = "lock"]
                 ELSE [driver EXCEPT !.init["main"].pc = "done",
                                     !.device_state = "DISCONNECTED"]
    /\ UNCHANGED << device, caps, mp, rm, host, task, periodic >>

\* on_connect
OnConnect ==
    /\ driver.init["main"].pc # "start"
    /\ driver.init["connect"].pc = "idle"
    /\ driver' = IF driver.configured
                 THEN (IF ~driver.entities_ready
                       THEN [driver EXCEPT !.init["connect"].pc = "lock"]
                       ELSE [driver EXCEPT !.device_state = "CONNECTED"])
                 ELSE [driver EXCEPT !.device_state = "DISCONNECTED"]
    /\ UNCHANGED << device, caps, mp, rm, host, task, periodic >>

\* on_subscribe_entities up to its call of _initialize_integration (the loop
\* over the subscribed entities runs only with entities_ready).
OnSubscribeEntities ==
    /\ driver.init["main"].pc # "start"
    /\ driver.init["subscribe"].pc = "idle"
    /\ ~driver.entities_ready
    /\ driver' = [driver EXCEPT !.init["subscribe"].pc = "lock"]
    /\ UNCHANGED << device, caps, mp, rm, host, task, periodic >>

\* A variant of LockFree in which the lock never makes a coroutine wait. C23
\* fails with it.
LockIgnored(lock) == TRUE

\* async with initialization_lock: the coroutine goes on when no other holds
\* the lock.
LockFree(lock) == lock = None

\* _initialize_integration, from taking initialization_lock to the device loop.
InitializeIntegration(p) ==
    /\ driver.init[p].pc = "lock"
    /\ LockFree(driver.lock)
    /\ driver' =
           IF driver.entities_ready
           THEN [driver EXCEPT !.init[p].pc = EndPc(p)]
           ELSE IF ~driver.configured
           THEN [driver EXCEPT !.init[p].pc = EndPc(p),
                               !.device_state = "ERROR"]
           ELSE [driver EXCEPT !.lock = p, !.device_state = "CONNECTING",
                               !.initialized = FALSE,
                               !.init[p] = [pc |-> "devices", k |-> 1,
                                            connected_devices |-> 0]]
    /\ UNCHANGED << device, caps, mp, rm, host, task, periodic >>

\* _initialize_integration, one pass of the device loop, for the k-th device
\* of the configuration: a disabled device is skipped; an enabled one is
\* connected, its entities are created, registered and initialized, or the
\* except clause logs the failure and the loop goes on; after the last device
\* the outcome is published and the lock released.
InitializeDevice(p, resp, o) ==
    LET d == driver.init[p].k
        connected == d \in driver.enabled /\ ConnectDevice(resp) = "return"
        sent == d \in driver.enabled
                /\ ConnectDevice(resp) \notin {"AttributeError", "TypeError"}
        n == driver.init[p].connected_devices + (IF connected THEN 1 ELSE 0)
        last == d = NumDevices
    IN /\ driver.init[p].pc = "devices"
       /\ (MakeRequest(resp) = "return") = (d \in driver.reachable)
       /\ driver' =
              [driver EXCEPT
                  !.media_players = IF connected THEN Append(@, d) ELSE @,
                  !.contacted = IF sent THEN @ \cup {d} ELSE @,
                  !.init[p] = IF last
                              THEN [pc |-> EndPc(p),
                                    k |-> 0, connected_devices |-> n]
                              ELSE [@ EXCEPT !.k = d + 1, !.connected_devices = n],
                  !.entities_ready = IF last THEN n > 0 ELSE @,
                  !.device_state = IF last
                                   THEN (IF n > 0 THEN "CONNECTED" ELSE "ERROR")
                                   ELSE @,
                  !.initialized = last,
                  !.lock = IF last THEN None ELSE @]
       /\ mp' = IF connected THEN [mp EXCEPT ![d] = SetupMediaPlayer(d, o)] ELSE mp
       /\ rm' = IF connected THEN [rm EXCEPT ![d] = SetupRemote(d, o)] ELSE rm
       /\ host' = IF connected
                  THEN [host EXCEPT ![d] = SetupMediaPlayer(d, o).attributes]
                  ELSE host
       /\ caps' = IF connected THEN [caps EXCEPT ![d] = o.failures < 3] ELSE caps
       /\ UNCHANGED << device, task, periodic >>


\* ------------------------------------------------------------ driver setup
\* What a setup message carries (setup_data or input_values): the device named
\* in "host" (0: none, or empty), whether "port" and "use_ssl" are there, and
\* the devices named in device_0_ip, device_1_ip, ...
SetupData == [host : 0..NumDevices, detailed : BOOLEAN, ips : {<< >>, <<1>>, <<1, 2>>}]

\* The messages the host sends to setup_handler: a DriverSetupRequest with its
\* device_count, a UserDataResponse, or any other (here AbortDriverSetup).
SetupMessages ==
    [type : {"DriverSetupRequest"}, device_count : {1, 2}, data : SetupData]
    \cup [type : {"UserDataResponse", "AbortDriverSetup"}, device_count : {0},
          data : SetupData]

\* async with YamahaMusicCastClient(host, port=port, use_ssl=use_ssl): await
\* get_device_info(). "return" when the device answered, else the exception.
TestConnection(d) ==
    IF ~({"port", "use_ssl"} \subseteq ClientInitParams) THEN "TypeError"
    ELSE IF d \in driver.reachable THEN "return"
    ELSE "DeviceNotReachableError"

\* MusicCastDeviceConfig(id=..., ..., use_ssl=use_ssl, ...)
NewDeviceConfig == IF "use_ssl" \in ConfigFields THEN "return" ELSE "TypeError"

SetupResult(action, added) == [action |-> action, added |-> added]

\* _handle_single_device_setup: the action returned and the devices added to
\* the configuration (after which _initialize_integration is started).
handle_single_device_setup(data) ==
    IF ~data.detailed THEN SetupResult("RequestUserInput", {})
    ELSE IF data.host = 0 THEN SetupResult("SetupError_OTHER", {})
    ELSE IF TestConnection(data.host) # "return" \/ NewDeviceConfig # "return"
    THEN SetupResult("SetupError_OTHER", {})
    ELSE SetupResult("SetupComplete", {data.host})

\* _handle_device_ips_collection with _test_multiple_devices, whose test_device
\* turns every exception into False.
handle_device_ips_collection(data) ==
    LET ok == {d \in Range(data.ips) : TestConnection(d) = "return"}
    IN IF ok # {} /\ NewDeviceConfig # "return"
       THEN SetupResult("TypeError", {})
       ELSE IF ok = {} THEN SetupResult("SetupError_CONNECTION_REFUSED", {})
       ELSE SetupResult("SetupComplete", ok)

\* Which function setup_handler hands the message to.
SetupDispatch(msg) ==
    CASE msg.type = "DriverSetupRequest" /\ msg.device_count = 1 -> "single"
      [] msg.type = "DriverSetupRequest" -> "request_ips"
      [] msg.type = "UserDataResponse"
         /\ driver.setup_state.step = "collect_ips" -> "collect_ips"
      [] msg.type = "UserDataResponse" -> "single"
      [] OTHER -> "none"

\* setup_handler. The host answers with a UserDataResponse only what asked for
\* user input; a DriverSetupRequest starts a session at any time. A completed
\* setup leaves a run of _initialize_integration about to take the lock.
SetupHandler(msg) ==
    LET how == SetupDispatch(msg)
        out == CASE how = "single" -> handle_single_device_setup(msg.data)
                 [] how = "collect_ips" -> handle_device_ips_collection(msg.data)
                 [] how = "request_ips" -> SetupResult("RequestUserInput", {})
                 [] OTHER -> SetupResult("SetupError_OTHER", {})
    IN /\ driver.init["main"].pc # "start"
       /\ msg.type = "UserDataResponse" => driver.setup.action = "RequestUserInput"
       /\ out.action = "SetupComplete" => driver.init["setup"].pc \in {"idle", "done"}
       /\ driver' =
              [driver EXCEPT
                  !.setup_state =
                      IF how = "request_ips"
                      THEN [step |-> "collect_ips", device_count |-> msg.device_count]
                      ELSE @,
                  !.setup =
                      [msg |-> msg.type,
                       device_count |-> IF msg.type = "DriverSetupRequest"
                                        THEN msg.device_count ELSE @.device_count,
                       handled |-> how, action |-> out.action],
                  !.configured = @ \/ out.added # {},
                  !.enabled = @ \cup out.added,
                  !.init["setup"].pc =
                      IF out.action = "SetupComplete" THEN "lock" ELSE @]
       /\ UNCHANGED << device, caps, mp, rm, host, task, periodic >>

NextDriver ==
    \/ Main
    \/ OnConnect
    \/ OnSubscribeEntities
    \/ \E p \in DriverTasks : InitializeIntegration(p)
    \/ \E p \in DriverTasks, resp \in Responses, o \in SetupOutcomes :
           InitializeDevice(p, resp, o)
    \/ \E msg \in SetupMessages : SetupHandler(msg)

SpecDriver == InitDriver /\ [][NextDriver]_vars

\* ------------------------------------------- a device added by a setup
\* The devices of a set in ascending order (the order they were set up in).
InOrder(S) ==
    [i \in 1..Cardinality(S) |->
        CHOOSE d \in S : Cardinality({e \in S : e < d}) = i - 1]

\* The driver as a completed setup is written to leave it: a run of
\* _initialize_integration has set up the devices of ready as Spec's initial
\* state has them (none: the first setup), and the setup handler has since
\* added the devices of added to the configuration, returned SetupComplete and
\* started _initialize_integration, which is about to take the lock.
InitAdded ==
    \E ready \in SUBSET Devices, added \in SUBSET Devices,
       re \in SUBSET Devices, o \in SetupOutcomes :
        /\ added # {} /\ ready \cap added = {} /\ ready \subseteq re
        /\ device = [d \in Devices |-> InitialDevice(d)]
        /\ caps = [d \in Devices |-> d \in ready /\ o.failures < 3]
        /\ mp = [d \in Devices |->
                    IF d \in ready THEN SetupMediaPlayer(d, o) ELSE NoMediaPlayer]
        /\ rm = [d \in Devices |->
                    IF d \in ready THEN SetupRemote(d, o) ELSE NoRemote]
        /\ host = [d \in Devices |->
                      IF d \in ready THEN SetupMediaPlayer(d, o).attributes
                      ELSE InitialAttributes]
        /\ task = [t \in Tasks |-> IdleTask]
        /\ periodic = IdlePeriodic
        /\ driver =
               [ReadyDriver EXCEPT
                   !.entities_ready = ready # {},
                   !.device_state = IF ready # {} THEN "CONNECTED"
                                    ELSE "DISCONNECTED",
                   !.media_players = InOrder(ready),
                   !.enabled = ready \cup added,
                   !.reachable = re,
                   !.contacted = ready,
                   !.initialized = ready # {},
                   !.init["setup"].pc = "lock",
                   !.setup = [msg |-> "UserDataResponse", device_count |-> 1,
                              handled |-> "single", action |-> "SetupComplete"]]

\* What runs after the setup: the run of _initialize_integration it started,
\* the host connecting and subscribing, and the periodic task.
NextAdded ==
    \/ OnConnect
    \/ OnSubscribeEntities
    \/ \E p \in DriverTasks : InitializeIntegration(p)
    \/ \E p \in DriverTasks, resp \in Responses, o \in SetupOutcomes :
           InitializeDevice(p, resp, o)
    \/ PeriodicTick
    \/ \E resp \in Responses : PeriodicStatus(resp)
    \/ \E resp \in Responses : PeriodicPlayInfo(resp)

\* The event loop runs whatever is ready to run.
SpecAddDevice == InitAdded /\ [][NextAdded]_vars /\ WF_vars(NextAdded)

\* ------------------------------------------------ calls against a stub
\* A method of the client, or of an entity that holds the client, called on
\* its own while a stub of the transport answers each GET with any of
\* Responses. No device is behind the stub: device keeps its initial value.

\* A call's record: where it is (pc), the object called (the client, the media
\* player or the remote of device dev), the method, the host command or the
\* arguments given (an absent key is an argument left at None), whether
\* _device_capabilities was set when it began, the request in flight and what
\* the call does when it is answered, the requests sent so far, the last
\* answer of the stub, the status a handler returned, the exception raised (or caught by a handler), and the
\* value returned in a one-element tuple.
IdleCall ==
    [ pc |-> "idle", ent |-> "none", dev |-> 0, method |-> "none",
      cmd |-> NoCommand, cached |-> FALSE, phase |-> "none", req |-> NoReq,
      nreq |-> 0, resp |-> NoResponse, status |-> None, exc |-> None,
      result |-> << >> ]

\* return value
Returned(value) ==
    [kind |-> "return", req |-> NoReq, phase |-> "none", status |-> "OK",
     exc |-> None, value |-> <<value>>]

\* A variant of FeaturesMissing that never finds the cache set. C20 fails
\* with it.
FeaturesNeverCached(cached) == TRUE

\* get_features: self._device_capabilities is None, so the request is made.
FeaturesMissing(cached) == ~cached

\* A variant of set_volume that tests the direction before the volume. C19
\* fails with it.
set_volume_direction_first(d, a, cached) ==
    IF HasParam(a, "direction") /\ a.direction \in {"up", "down"}
    THEN Send(SetVolumeDirection(a.direction,
                                 IF HasParam(a, "step") THEN a.step ELSE 4), "last")
    ELSE IF HasParam(a, "volume")
    THEN IF FeaturesMissing(cached)
         THEN Send(Req("getFeatures", NoParams), "set_volume")
         ELSE Send(SetVolumeAbsolute(Features(d), a.volume), "last")
    ELSE IF HasParam(a, "step") THEN Send(Req("setVolume", [step |-> a.step]), "last")
    ELSE Raise("InvalidParameterError")

\* client.set_volume up to its first request: the volume form (which reads the
\* features first), the direction form, the bare step, or the error.
set_volume(d, a, cached) ==
    IF HasParam(a, "volume")
    THEN IF FeaturesMissing(cached)
         THEN Send(Req("getFeatures", NoParams), "set_volume")
         ELSE Send(SetVolumeAbsolute(Features(d), a.volume), "last")
    ELSE IF HasParam(a, "direction") /\ a.direction \in {"up", "down"}
    THEN Send(SetVolumeDirection(a.direction,
                                 IF HasParam(a, "step") THEN a.step ELSE 4), "last")
    ELSE IF HasParam(a, "step") THEN Send(Req("setVolume", [step |-> a.step]), "last")
    ELSE Raise("InvalidParameterError")

\* A method of the client up to its first request, or to its return when it
\* sends none. a: the arguments; cached: _device_capabilities is set.
ClientMethod(d, method, a, cached) ==
    CASE method = "get_features" ->
           IF FeaturesMissing(cached)
           THEN Send(Req("getFeatures", NoParams), "get_features")
           ELSE Returned(Features(d))
      [] method = "set_volume" -> set_volume(d, a, cached)
      [] method = "get_available_inputs" ->
           IF FeaturesMissing(cached)
           THEN Send(Req("getFeatures", NoParams), "get_available_inputs")
           ELSE Returned(AvailableInputs(Features(d)))
      [] method = "get_available_sound_programs" ->
           IF FeaturesMissing(cached)
           THEN Send(Req("getFeatures", NoParams), "get_available_sound_programs")
           ELSE Returned(Features(d).sound_program_list)
      [] method = "set_playback" -> ClientCall(method, a.playback)
      [] method = "set_repeat" -> ClientCall(method, a.repeat)
      [] method = "set_shuffle" -> ClientCall(method, a.shuffle)
      [] method = "recall_preset" -> ClientCall(method, a.num)
      [] OTHER -> Raise("AttributeError")

\* What a call does once its request is over. outcome is what _make_request
\* did: "return", or the exception it raised.
CallContinue(tk, outcome) ==
    LET ok == outcome = "return"
        d  == tk.dev
    IN CASE tk.phase = "get_features" ->
              IF ok THEN Returned(Features(d)) ELSE Raise(outcome)
         [] tk.phase = "set_volume" ->
              IF ok THEN Send(SetVolumeAbsolute(Features(d), tk.cmd.params.volume), "last")
              ELSE Raise(outcome)
         [] tk.phase = "get_available_inputs" ->
              IF ok THEN Returned(AvailableInputs(Features(d)))
              ELSE Returned(FallbackInputs)
         [] tk.phase = "get_available_sound_programs" ->
              IF ok THEN Returned(Features(d).sound_program_list) ELSE Returned(<< >>)
         [] tk.phase = "initialize_sources" -> Returned(None)
         [] OTHER ->
              IF ~ok THEN Raise(outcome)
              ELSE IF tk.ent = "client" THEN Returned(TRUE)
              ELSE Continue(tk, device[d])

\* The call's record after a step of the call. A handler returns a status and
\* keeps the exception it caught; a method of the client returns a value or
\* lets the exception through.
CallAfter(tk, step) ==
    [tk EXCEPT
        !.pc = IF step.kind = "send" THEN "wait" ELSE "done",
        !.phase = step.phase,
        !.req = IF step.kind = "send" THEN step.req ELSE @,
        !.nreq = IF step.kind = "send" THEN @ + 1 ELSE @,
        !.status = IF tk.method = "_handle_command" THEN step.status ELSE None,
        !.exc = step.exc,
        !.result = IF "value" \in DOMAIN step THEN step.value ELSE << >>]

\* The arguments set_volume is called with.
SetVolumeArguments ==
    { v @@ s @@ dr :
        v \in {NoParams} \cup {[volume |-> x] : x \in {-3, 50, 250}},
        s \in {NoParams, [step |-> 2]},
        dr \in {NoParams} \cup {[direction |-> x] : x \in {"up", "down", "sideways"}} }

\* The calls made on the client.
ClientCalls ==
    { [method |-> m, params |-> NoParams] :
          m \in {"get_features", "get_available_inputs",
                 "get_available_sound_programs"} }
    \cup { [method |-> "set_volume", params |-> a] : a \in SetVolumeArguments }
    \cup { [method |-> "set_playback", params |-> [playback |-> x]] :
               x \in {"play_pause", "play", "pause", "stop", "next", "previous",
                      "toggle", "rewind", "PLAY", ""} }
    \cup { [method |-> "set_repeat", params |-> [repeat |-> x]] :
               x \in {"off", "one", "all", "on", "OFF"} }
    \cup { [method |-> "set_shuffle", params |-> [shuffle |-> x]] :
               x \in {"off", "on", "all", "ON"} }
    \cup { [method |-> "recall_preset", params |-> [num |-> x]] :
               x \in {-1, 0, 1, 40, 41} }

\* The commands the handlers are called with.
HandlerCommands(ent) ==
    IF ent = "media_player"
    THEN { [cmd_id |-> "repeat", params |-> [repeat |-> x]] :
               x \in {"OFF", "ONE", "ALL", "SOME"} }
         \cup { [cmd_id |-> "shuffle", params |-> [shuffle |-> x]] : x \in BOOLEAN }
         \cup { [cmd_id |-> "repeat", params |-> NoParams] }
    ELSE { [cmd_id |-> "send_cmd", params |-> [command |-> s]] :
               s \in {<<"p", "r", "e", "s", "e", "t", "_", "0">>, <<"p", "r", "e", "s", "e", "t", "_", "1">>, <<"p", "r", "e", "s", "e", "t", "_", "4", "0">>, <<"p", "r", "e", "s", "e", "t", "_", "4", "1">>,
                      <<"s", "c", "e", "n", "e", "_", "0">>, <<"s", "c", "e", "n", "e", "_", "8">>, <<"s", "c", "e", "n", "e", "_", "9">>} }

\* A client and its two entities as constructed, nothing fetched yet.
InitClient ==
    /\ device = [d \in Devices |-> InitialDevice(d)]
    /\ caps = [d \in Devices |-> FALSE]
    /\ mp = [d \in Devices |-> NoMediaPlayer]
    /\ rm = [d \in Devices |-> NoRemote]
    /\ host = [d \in Devices |-> InitialAttributes]
    /\ task = [t \in Tasks |-> IdleCall]
    /\ periodic = IdlePeriodic
    /\ driver = ReadyDriver

\* A method of the client of device d is called.
CallClient(t, d, c) ==
    /\ task[t].pc \in {"idle", "done"}
    /\ task' = [task EXCEPT ![t] =
           CallAfter([IdleCall EXCEPT !.ent = "client", !.dev = d,
                                      !.method = c.method,
                                      !.cmd = [cmd_id |-> "none", params |-> c.params],
                                      !.cached = caps[d]],
                     ClientMethod(d, c.method, c.params, caps[d]))]
    /\ UNCHANGED << device, caps, mp, rm, host, periodic, driver >>

\* _handle_command of the media player or the remote of device d is called.
CallHandler(t, ent, d, c) ==
    /\ task[t].pc \in {"idle", "done"}
    /\ task' = [task EXCEPT ![t] =
           CallAfter([IdleCall EXCEPT !.ent = ent, !.dev = d,
                                      !.method = "_handle_command", !.cmd = c,
                                      !.cached = caps[d]],
                     IF ent = "media_player" THEN MediaPlayerCommand(mp[d], c)
                     ELSE RemoteCommand(rm[d], c))]
    /\ UNCHANGED << device, caps, mp, rm, host, periodic, driver >>

\* initialize_sources of the media player of device d is called: with the
\* features cached it ends without a request.
CallInitializeSources(t, d) ==
    /\ task[t].pc \in {"idle", "done"}
    /\ task' = [task EXCEPT ![t] =
           CallAfter([IdleCall EXCEPT !.ent = "media_player", !.dev = d,
                                      !.method = "initialize_sources",
                                      !.cached = caps[d]],
                     IF FeaturesMissing(caps[d])
                     THEN Send(Req("getFeatures", NoParams), "initialize_sources")
                     ELSE Returned(None))]
    /\ mp' = IF FeaturesMissing(caps[d]) THEN mp
             ELSE [mp EXCEPT ![d] = InitializeSources(d, TRUE)]
    /\ UNCHANGED << device, caps, rm, host, periodic, driver >>

\* The stub answers the request a call awaits.
StubResponse(t, resp) ==
    LET tk == task[t]
        ok == MakeRequest(resp) = "return"
    IN /\ tk.pc = "wait"
       /\ caps' = [caps EXCEPT ![tk.dev] = @ \/ (ok /\ tk.req.ep = "getFeatures")]
       /\ mp' = IF tk.phase = "initialize_sources"
                THEN [mp EXCEPT ![tk.dev] = InitializeSources(tk.dev, ok)]
                ELSE mp
       /\ task' = [task EXCEPT ![t] =
              CallAfter([tk EXCEPT !.resp = resp],
                        CallContinue(tk, MakeRequest(resp)))]
       /\ UNCHANGED << device, rm, host, periodic, driver >>

NextClient ==
    \/ \E t \in Tasks, d \in Devices, c \in ClientCalls : CallClient(t, d, c)
    \/ \E t \in Tasks, d \in Devices, ent \in {"media_player", "remote"} :
           \E c \in HandlerCommands(ent) : CallHandler(t, ent, d, c)
    \/ \E t \in Tasks, d \in Devices : CallInitializeSources(t, d)
    \/ \E t \in Tasks, resp \in Responses : StubResponse(t, resp)

SpecClient == InitClient /\ [][NextClient]_vars

\* ------------------------------------------------ the volume conversions
\* The largest percentage and the largest max_volume the conversions are
\* called with.
MaxPercentage == 100

MaxMaxVolume == 200

\* The two conversions of the media player called on their own:
\* _convert_percentage_to_volume on a percentage and a max_volume, then
\* _convert_volume_to_percentage on what it returned and the same max_volume.
\* The call's result holds the values returned so far.
InitConvert ==
    \E pct \in 0..MaxPercentage, mv \in 1..MaxMaxVolume :
        /\ device = [d \in Devices |-> InitialDevice(d)]
        /\ caps = [d \in Devices |-> FALSE]
        /\ mp = [d \in Devices |-> NoMediaPlayer]
        /\ rm = [d \in Devices |-> NoRemote]
        /\ host = [d \in Devices |-> InitialAttributes]
        /\ task = [t \in Tasks |->
                      IF t = 1
                      THEN [IdleCall EXCEPT
                               !.ent = "media_player",
                               !.method = "_convert_percentage_to_volume",
                               !.cmd = [cmd_id |-> "none",
                                        params |-> [percentage |-> pct,
                                                    max_volume |-> mv]]]
                      ELSE IdleCall]
        /\ periodic = IdlePeriodic
        /\ driver = ReadyDriver

ConvertPercentage(t) ==
    /\ task[t].pc = "idle"
    /\ task[t].method = "_convert_percentage_to_volume"
    /\ task' = [task EXCEPT ![t] =
           [@ EXCEPT !.pc = "converted",
                     !.result = << convert_percentage_to_volume(
                                       task[t].cmd.params.percentage,
                                       task[t].cmd.params.max_volume) >>]]
    /\ UNCHANGED << device, caps, mp, rm, host, periodic, driver >>

ConvertVolume(t) ==
    /\ task[t].pc = "converted"
    /\ task' = [task EXCEPT ![t] =
           [@ EXCEPT !.pc = "done",
                     !.method = "_convert_volume_to_percentage",
                     !.result = Append(@, convert_volume_to_percentage(
                                              task[t].result[1],
                                              task[t].cmd.params.max_volume))]]
    /\ UNCHANGED << device, caps, mp, rm, host, periodic, driver >>

NextConvert ==
    \/ \E t \in Tasks : ConvertPercentage(t)
    \/ \E t \in Tasks : ConvertVolume(t)

SpecConvert == InitConvert /\ [][NextConvert]_vars

\* ------------------------------------------------- the setup flow (setup.py)
\* YamahaMusicCastClient.discover_devices: not implemented, the empty list.
discover_devices == << >>

\* The address of receiver d.
IpAddress(d) == <<"1", "9", "2", ".", "1", "6", "8", ".", "1", ".", "1", "0">> \o << Digits[d + 1] >>

\* str.strip() for spaces.
StrStrip(s) ==
    LET keep == {i \in 1..Len(s) : s[i] # " "}
    IN IF keep = {} THEN << >>
       ELSE SubSeq(s, CHOOSE i \in keep : \A j \in keep : i <= j,
                      CHOOSE i \in keep : \A j \in keep : j <= i)

\* YamahaMusicCastClient.verify_device: TRUE when get_device_info returned a
\* DeviceInfo, FALSE when it returned None because the request raised.
verify_device(resp) == MakeRequest(resp) = "return"

\* A setup message: its class and the fields the flow reads.
\* input_values.get("selected_device", "0") and input_values.get("device_ip",
\* "") give an absent field its default.
SetupMessage(type, discovery, selected, ip, confirm) ==
    [type |-> type, device_discovery |-> discovery, selected_device |-> selected,
     device_ip |-> ip, confirm |-> confirm]

\* The messages sent to the flow: the two setup requests, the answers to the
\* device selection form (selected_device only) and to the manual form
\* (device_ip only), the two confirmations, an abort, and a message of none of
\* the four classes handle_setup knows.
SetupFlowMessages ==
    { SetupMessage("DriverSetupRequest", m, <<"0">>, << >>, FALSE) : m \in {"auto", "manual"} }
    \cup { SetupMessage("UserDataResponse", "auto", s, << >>, FALSE) :
             s \in { <<"0">>, <<"1">>, <<"-", "1">>, <<"x">> } }
    \cup { SetupMessage("UserDataResponse", "auto", <<"0">>, ip, FALSE) :
             ip \in { <<" ", " ">> } \cup { IpAddress(d) : d \in Devices }
                    \cup { <<" ">> \o IpAddress(d) : d \in Devices } }
    \cup { SetupMessage("UserConfirmationResponse", "auto", <<"0">>, << >>, c) :
             c \in BOOLEAN }
    \cup { SetupMessage("AbortDriverSetup", "auto", <<"0">>, << >>, FALSE),
           SetupMessage("SetupDriver", "auto", <<"0">>, << >>, FALSE) }

\* What a handler of the flow leaves: current_step, selected_device (the
\* address; << >> is None), discovered_devices, the SetupAction returned, and
\* the request it awaited (endpoint, address, response) if it sent one.
FlowResult(step, selected, discovered, action, sent, to, resp) ==
    [current_step |-> step, selected_device |-> selected,
     discovered_devices |-> discovered, action |-> action,
     sent |-> sent, to |-> to, resp |-> resp]

\* YamahaMusicCastSetup.__init__, before any message.
NewSetupFlow ==
    [current_step |-> "initial", selected_device |-> << >>, discovered_devices |-> << >>,
     action |-> "none", sent |-> "none", to |-> << >>, resp |-> NoResponse,
     msg |-> SetupMessage("none", "auto", <<"0">>, << >>, FALSE), at |-> "initial"]

\* _request_manual_ip.
request_manual_ip(f) ==
    FlowResult("manual_ip", f.selected_device, f.discovered_devices,
               "RequestUserInput", "none", << >>, NoResponse)

\* _confirm_device_selection with selected_device already assigned.
confirm_device_selection(step, selected, discovered, sent, to, resp) ==
    FlowResult(step, selected, discovered,
               IF selected = << >> THEN "SetupError(OTHER)" ELSE "RequestUserConfirmation",
               sent, to, resp)

\* _start_device_discovery and _request_device_selection.
start_device_discovery(f) ==
    LET found == discover_devices
    IN IF found = << >>
       THEN FlowResult("discovery", f.selected_device, found,
                       "RequestUserConfirmation", "none", << >>, NoResponse)
       ELSE IF Len(found) = 1
       THEN confirm_device_selection("discovery", found[1], found, "none", << >>, NoResponse)
       ELSE FlowResult("device_selection", f.selected_device, found,
                       "RequestUserInput", "none", << >>, NoResponse)

\* _handle_setup_request.
handle_setup_request(f, msg) ==
    IF msg.device_discovery = "auto"
    THEN start_device_discovery([f EXCEPT !.current_step = "discovery"])
    ELSE request_manual_ip(f)

\* _handle_user_data; resp answers the getDeviceInfo of verify_device.
handle_user_data(f, msg, resp) ==
    LET fail(action, sent, to, r) ==
            FlowResult(f.current_step, f.selected_device, f.discovered_devices,
                       action, sent, to, r)
        selected_index == ParseInt(msg.selected_device)
        device_ip == StrStrip(msg.device_ip)
    IN IF f.current_step = "device_selection"
       THEN IF ~selected_index.ok THEN fail("SetupError(OTHER)", "none", << >>, NoResponse)
            ELSE IF 0 <= selected_index.value
                    /\ selected_index.value < Len(f.discovered_devices)
            THEN confirm_device_selection(f.current_step,
                     f.discovered_devices[selected_index.value + 1],
                     f.discovered_devices, "none", << >>, NoResponse)
            ELSE fail("SetupError(OTHER)", "none", << >>, NoResponse)
       ELSE IF f.current_step = "manual_ip"
       THEN IF device_ip = << >> THEN fail("SetupError(OTHER)", "none", << >>, NoResponse)
            ELSE IF ~verify_device(resp)
            THEN fail("SetupError(CONNECTION_REFUSED)", "getDeviceInfo", device_ip, resp)
            ELSE confirm_device_selection(f.current_step, device_ip,
                     f.discovered_devices, "getDeviceInfo", device_ip, resp)
       ELSE fail("SetupError(OTHER)", "none", << >>, NoResponse)

\* A variant of complete_setup without the final device test. C29 fails with
\* it.
complete_setup_untested(f, resp) ==
    FlowResult(f.current_step, f.selected_device, f.discovered_devices,
               IF f.selected_device = << >> THEN "SetupError(OTHER)" ELSE "SetupComplete",
               "none", << >>, NoResponse)

\* _complete_setup; resp answers the main/getStatus of the final device test.
complete_setup(f, resp) ==
    IF f.selected_device = << >>
    THEN FlowResult(f.current_step, f.selected_device, f.discovered_devices,
                    "SetupError(OTHER)", "none", << >>, NoResponse)
    ELSE FlowResult(f.current_step, f.selected_device, f.discovered_devices,
                    IF MakeRequest(resp) = "return" THEN "SetupComplete"
                    ELSE "SetupError(CONNECTION_REFUSED)",
                    "getStatus", f.selected_device, resp)

\* _handle_user_confirmation.
handle_user_confirmation(f, msg, resp) ==
    IF ~msg.confirm
    THEN FlowResult(f.current_step, f.selected_device, f.discovered_devices,
                    "SetupError(OTHER)", "none", << >>, NoResponse)
    ELSE IF f.current_step = "discovery" /\ f.discovered_devices = << >>
    THEN request_manual_ip(f)
    ELSE complete_setup(f, resp)

\* handle_setup with a DriverSetupRequest. The instance then holds what the
\* handler left, the message it handled and the step the message came at.
HandleSetupRequest(msg) ==
    /\ msg.type = "DriverSetupRequest"
    /\ driver' = [msg |-> msg, at |-> driver.current_step]
                    @@ handle_setup_request(driver, msg)
    /\ UNCHANGED << device, caps, mp, rm, host, task, periodic >>

\* handle_setup with a UserDataResponse.
HandleUserData(msg, resp) ==
    /\ msg.type = "UserDataResponse"
    /\ driver' = [msg |-> msg, at |-> driver.current_step]
                    @@ handle_user_data(driver, msg, resp)
    /\ UNCHANGED << device, caps, mp, rm, host, task, periodic >>

\* handle_setup with a UserConfirmationResponse.
HandleUserConfirmation(msg, resp) ==
    /\ msg.type = "UserConfirmationResponse"
    /\ driver' = [msg |-> msg, at |-> driver.current_step]
                    @@ handle_user_confirmation(driver, msg, resp)
    /\ UNCHANGED << device, caps, mp, rm, host, task, periodic >>

\* handle_setup with an AbortDriverSetup: SetupError(msg.error).
HandleAbort(msg) ==
    /\ msg.type = "AbortDriverSetup"
    /\ driver' = [msg |-> msg, at |-> driver.current_step]
                    @@ FlowResult(driver.current_step, driver.selected_device,
                                  driver.discovered_devices, "SetupError(error)",
                                  "none", << >>, NoResponse)
    /\ UNCHANGED << device, caps, mp, rm, host, task, periodic >>

\* handle_setup with a message of another class.
HandleUnsupported(msg) ==
    /\ msg.type \notin {"DriverSetupRequest", "UserDataResponse",
                        "UserConfirmationResponse", "AbortDriverSetup"}
    /\ driver' = [msg |-> msg, at |-> driver.current_step]
                    @@ FlowResult(driver.current_step, driver.selected_device,
                                  driver.discovered_devices, "SetupError(OTHER)",
                                  "none", << >>, NoResponse)
    /\ UNCHANGED << device, caps, mp, rm, host, task, periodic >>

\* setup_handler creates the instance on the first message and keeps it.
InitSetup ==
    /\ device = [d \in Devices |-> InitialDevice(d)]
    /\ caps = [d \in Devices |-> FALSE]
    /\ mp = [d \in Devices |-> NoMediaPlayer]
    /\ rm = [d \in Devices |-> NoRemote]
    /\ host = [d \in Devices |-> InitialAttributes]
    /\ task = [t \in Tasks |-> IdleCall]
    /\ periodic = IdlePeriodic
    /\ driver = NewSetupFlow

NextSetup ==
    \/ \E msg \in SetupFlowMessages : HandleSetupRequest(msg)
    \/ \E msg \in SetupFlowMessages, resp \in Responses : HandleUserData(msg, resp)
    \/ \E msg \in SetupFlowMessages, resp \in Responses : HandleUserConfirmation(msg, resp)
    \/ \E msg \in SetupFlowMessages : HandleAbort(msg)
    \/ \E msg \in SetupFlowMessages : HandleUnsupported(msg)

SpecSetup == InitSetup /\ [][NextSetup]_vars

\* ------------------------------------------------------------- properties
\* C1: for every absolute-volume command of the media player, whatever the
\* percentage, the value the setVolume request carries is an integer in
\* [0, max_volume], max_volume being the maximum the device reports.
C1_VolumeInRange ==
    \A t \in Tasks :
        (task[t].pc = "wait" /\ task[t].ent = "media_player"
         /\ task[t].cmd.cmd_id = "volume" /\ task[t].req.ep = "setVolume")
        => /\ "int" \in DOMAIN task[t].req.params.volume
           /\ task[t].req.params.volume.int >= 0
           /\ task[t].req.params.volume.int <= StatusMaxVolume(task[t].dev)

\* A VOLUME command of 130 percent is in flight as setVolume with the device's
\* maximum.
C1_Witness ==
    \E t \in Tasks :
        /\ task[t].pc = "wait" /\ task[t].ent = "media_player"
        /\ task[t].cmd.cmd_id = "volume" /\ task[t].cmd.params.volume = 130
        /\ task[t].req.ep = "setVolume"
        /\ task[t].req.params.volume.int = StatusMaxVolume(task[t].dev)

\* C2: a source selection whose name (media player) or id (remote input_<id>)
\* is not among the entity's available sources returns BAD_REQUEST and has
\* sent no request at all.
C2_AbsentSourceRejected ==
    \A t \in Tasks :
        LET tk == task[t] IN
        /\ (/\ tk.ent = "media_player" /\ tk.cmd.cmd_id = "select_source"
            /\ HasParam(tk.cmd.params, "source")
            /\ \A i \in 1..Len(mp[tk.dev].sources) :
                   mp[tk.dev].sources[i].name # tk.cmd.params.source)
           => (tk.pc = "done" /\ tk.status = "BAD_REQUEST" /\ tk.nreq = 0)
        /\ (/\ tk.ent = "remote" /\ tk.cmd.cmd_id = "send_cmd"
            /\ HasParam(tk.cmd.params, "command")
            /\ StartsWith(tk.cmd.params.command, <<"i", "n", "p", "u", "t", "_">>)
            /\ \A i \in 1..Len(rm[tk.dev].sources) :
                   rm[tk.dev].sources[i].id # StrFrom(tk.cmd.params.command, 6))
           => (tk.pc = "done" /\ tk.status = "BAD_REQUEST" /\ tk.nreq = 0)

\* SELECT_SOURCE "Bluetooth" was rejected by a media player whose sources come
\* from the device (the name is one of the hardcoded fallback list only).
C2_Witness ==
    \E t \in Tasks :
        /\ task[t].ent = "media_player" /\ task[t].cmd.cmd_id = "select_source"
        /\ HasParam(task[t].cmd.params, "source")
        /\ task[t].cmd.params.source = <<"B", "l", "u", "e", "t", "o", "o", "t", "h">>
        /\ Len(mp[task[t].dev].sources) # 3
        /\ task[t].status = "BAD_REQUEST" /\ task[t].nreq = 0

\* C3: every setSoundProgram request carries a program id of the device's
\* sound_program_list, and a sound-mode selection (media player
\* SELECT_SOUND_MODE, remote sound_<id>) that resolves to no such id returns
\* BAD_REQUEST and has sent nothing.
C3_SoundProgramAvailable ==
    \A t \in Tasks :
        LET tk == task[t] IN
        /\ (tk.pc = "wait" /\ tk.req.ep = "setSoundProgram")
           => tk.req.params.program \in Range(Features(tk.dev).sound_program_list)
        /\ (/\ tk.ent = "media_player" /\ tk.cmd.cmd_id = "select_sound_mode"
            /\ HasParam(tk.cmd.params, "sound_mode")
            /\ ResolveSoundMode(mp[tk.dev].programs, tk.cmd.params.sound_mode)
                   \notin Range(Features(tk.dev).sound_program_list))
           => (tk.pc = "done" /\ tk.status = "BAD_REQUEST" /\ tk.nreq = 0)
        /\ (/\ tk.ent = "remote" /\ tk.cmd.cmd_id = "send_cmd"
            /\ HasParam(tk.cmd.params, "command")
            /\ StartsWith(tk.cmd.params.command, <<"s", "o", "u", "n", "d", "_">>)
            /\ StrFrom(tk.cmd.params.command, 6)
                   \notin Range(Features(tk.dev).sound_program_list))
           => (tk.pc = "done" /\ tk.status = "BAD_REQUEST" /\ tk.nreq = 0)

\* SELECT_SOUND_MODE "Vienna Hall" (a name of the reverse table, for a program
\* the device does not list) was rejected by a media player that holds the
\* device's programs.
C3_Witness ==
    \E t \in Tasks :
        /\ task[t].ent = "media_player" /\ task[t].cmd.cmd_id = "select_sound_mode"
        /\ HasParam(task[t].cmd.params, "sound_mode")
        /\ task[t].cmd.params.sound_mode = <<"V", "i", "e", "n", "n", "a", " ", "H", "a", "l", "l">>
        /\ mp[task[t].dev].programs # << >>
        /\ task[t].status = "BAD_REQUEST" /\ task[t].nreq = 0

\* C4: for an HTTP 200 answer, _make_request returns exactly when the body's
\* response_code is 0; it raises InvalidParameterError for 3 and 4, and the
\* generic YamahaMusicCastError for every other code, a missing one (read as
\* -1) included.
C4_ResponseCodes ==
    \A t \in Tasks :
        LET tk == task[t]
            code == IF tk.resp.has_code THEN tk.resp.code ELSE -1
            raised == tk.exc \in {"DeviceNotReachableError", "InvalidParameterError",
                                  "YamahaMusicCastError"}
        IN (tk.resp # NoResponse /\ tk.resp.net = "ok" /\ tk.resp.http = 200)
           => /\ (~raised) <=> (code = 0)
              /\ (code \in {3, 4}) => (tk.exc = "InvalidParameterError")
              /\ (code \notin {0, 3, 4}) => (tk.exc = "YamahaMusicCastError")

\* A request was answered 200 with no response_code and the handler caught the
\* generic error.
C4_Witness ==
    \E t \in Tasks :
        /\ task[t].resp.net = "ok" /\ task[t].resp.http = 200
        /\ ~task[t].resp.has_code
        /\ task[t].exc = "YamahaMusicCastError"

\* C5: when setVolume of a media player VOLUME command is answered with
\* response_code 4, InvalidParameterError is raised, the handler returns a
\* failure status and ends without a deferred update, and the step leaves the
\* attribute maps, and what the host was pushed, as they were.
C5_SetVolumeRejected ==
    [][\A t \in Tasks :
          (/\ task[t].pc = "wait" /\ task[t].ent = "media_player"
           /\ task[t].cmd.cmd_id = "volume" /\ task[t].req.ep = "setVolume"
           /\ task'[t] # task[t]
           /\ task'[t].resp = [net |-> "ok", http |-> 200, has_code |-> TRUE,
                               code |-> 4])
          => /\ task'[t].exc = "InvalidParameterError"
             /\ task'[t].status = "SERVER_ERROR"
             /\ task'[t].pc = "done"
             /\ task'[t].refresh = "none"
             /\ mp' = mp /\ host' = host /\ device' = device]_vars

\* A VOLUME command ended after its setVolume was answered with code 4.
C5_Witness ==
    \E t \in Tasks :
        /\ task[t].pc = "done" /\ task[t].ent = "media_player"
        /\ task[t].cmd.cmd_id = "volume" /\ task[t].req.ep = "setVolume"
        /\ task[t].resp.has_code /\ task[t].resp.code = 4
        /\ task[t].resp.http = 200

C7_TickPollsEveryDevice ==
    /\ periodic.pc \in {"status", "play_info"}
       => periodic.polled =
              {driver.media_players[i] : i \in 1..(periodic.idx - 1)}
    /\ periodic.pc = "sleep"
       => /\ periodic.polled \in {{}, Range(driver.media_players)}
          /\ ENABLED PeriodicTick

\* A tick is over in which the first device's update failed and every device
\* was polled.
C7_Witness ==
    /\ periodic.pc = "sleep"
    /\ 1 \in periodic.failed
    /\ periodic.polled = Devices

\* C8: when an update of a device's media player fails, in the periodic loop
\* or in a deferred update, that media player's STATE becomes UNAVAILABLE and
\* the map is pushed to the host, every other device's map and push stay as
\* they were, and nothing is raised: the deferred task just ends and the
\* periodic loop goes on.
C8_FailedRefresh ==
    [][/\ \A t \in Tasks :
              (task[t].refresh # "failed" /\ task'[t].refresh = "failed")
              => /\ mp'[task[t].target].attributes.state = "UNAVAILABLE"
                 /\ host'[task[t].target] = mp'[task[t].target].attributes
                 /\ \A d \in Devices \ {task[t].target} :
                        mp'[d] = mp[d] /\ host'[d] = host[d]
                 /\ task'[t].pc = "done" /\ task'[t].status = task[t].status
       /\ \A m \in Devices :
              (m \in periodic'.failed /\ m \notin periodic.failed)
              => /\ mp'[m].attributes.state = "UNAVAILABLE"
                 /\ host'[m] = mp'[m].attributes
                 /\ \A d \in Devices \ {m} : mp'[d] = mp[d] /\ host'[d] = host[d]
                 /\ periodic'.pc \in {"status", "sleep"}]_vars

\* The periodic loop is at the second device after the first one's update
\* failed: the first shows UNAVAILABLE, to the host too, the second does not.
C8_Witness ==
    /\ periodic.pc = "status" /\ periodic.idx = 2
    /\ 1 \in periodic.failed
    /\ mp[1].attributes.state = "UNAVAILABLE"
    /\ host[1].state = "UNAVAILABLE"
    /\ mp[2].attributes.state # "UNAVAILABLE"

C10_Initialized ==
    driver.initialized
    => /\ \A d \in driver.enabled \cap driver.reachable :
              /\ d \in Range(driver.media_players)
              /\ mp[d].sources # << >>
       /\ driver.device_state =
              IF driver.enabled \cap driver.reachable # {} THEN "CONNECTED"
              ELSE "ERROR"
       /\ driver.contacted \subseteq driver.enabled

\* An initialization is over with an enabled device that answers the identity
\* query, and the integration state is ERROR with no entity registered.
C10_NotConnected ==
    /\ driver.initialized
    /\ driver.enabled \cap driver.reachable # {}
    /\ driver.device_state = "ERROR"
    /\ driver.media_players = << >>
    /\ driver.contacted = {}

\* C11: a preset number outside 1..40 is rejected before any request, by
\* recall_preset (InvalidParameterError) and by the remote's preset_<n>
\* (BAD_REQUEST); a number in 1..40 sends exactly one recallPreset request
\* carrying it and the call succeeds when that request is answered with
\* response_code 0; a scene number outside 1..8 is rejected by the remote's
\* scene_<n> before any request.
C11_PresetRange ==
    \A t \in Tasks :
        LET tk  == task[t]
            num == IF tk.method = "recall_preset" THEN tk.cmd.params.num
                   ELSE ParseInt(StrFrom(tk.cmd.params.command, 7)).value
            one == /\ tk.nreq = 1
                   /\ tk.req = Req("recallPreset", [zone |-> "main", num |-> num])
        IN /\ (tk.method = "recall_preset" /\ ~(1 <= num /\ num <= 40))
              => (tk.pc = "done" /\ tk.nreq = 0 /\ tk.exc = "InvalidParameterError")
           /\ (tk.method = "recall_preset" /\ 1 <= num /\ num <= 40)
              => /\ one
                 /\ (tk.pc = "done" /\ tk.resp.net = "ok" /\ tk.resp.http = 200
                     /\ tk.resp.has_code /\ tk.resp.code = 0)
                    => (tk.exc = None /\ tk.result = <<TRUE>>)
           /\ (tk.ent = "remote" /\ StartsWith(tk.cmd.params.command, <<"p", "r", "e", "s", "e", "t", "_">>)
               /\ ~(1 <= num /\ num <= 40))
              => (tk.pc = "done" /\ tk.nreq = 0 /\ tk.status = "BAD_REQUEST")
           /\ (tk.ent = "remote" /\ StartsWith(tk.cmd.params.command, <<"p", "r", "e", "s", "e", "t", "_">>)
               /\ 1 <= num /\ num <= 40)
              => /\ one
                 /\ (tk.pc = "done" /\ tk.resp.net = "ok" /\ tk.resp.http = 200
                     /\ tk.resp.has_code /\ tk.resp.code = 0)
                    => tk.status = "OK"
           /\ (tk.ent = "remote" /\ StartsWith(tk.cmd.params.command, <<"s", "c", "e", "n", "e", "_">>)
               /\ ~(1 <= ParseInt(StrFrom(tk.cmd.params.command, 6)).value
                    /\ ParseInt(StrFrom(tk.cmd.params.command, 6)).value <= 8))
              => (tk.pc = "done" /\ tk.nreq = 0 /\ tk.status = "BAD_REQUEST")

\* recall_preset(num=41) has raised InvalidParameterError without a request.
C11_Witness ==
    \E t \in Tasks :
        /\ task[t].method = "recall_preset" /\ task[t].cmd.params.num = 41
        /\ task[t].pc = "done" /\ task[t].nreq = 0
        /\ task[t].exc = "InvalidParameterError"

\* recall_preset(num=40) has returned True after one request.
C11_Accepted ==
    \E t \in Tasks :
        /\ task[t].method = "recall_preset" /\ task[t].cmd.params.num = 40
        /\ task[t].pc = "done" /\ task[t].nreq = 1 /\ task[t].result = <<TRUE>>

\* The remote's scene_9 has returned BAD_REQUEST without a request.
C11_SceneRejected ==
    \E t \in Tasks :
        /\ task[t].ent = "remote" /\ task[t].cmd.params.command = <<"s", "c", "e", "n", "e", "_", "9">>
        /\ task[t].pc = "done" /\ task[t].nreq = 0 /\ task[t].status = "BAD_REQUEST"

\* C12: for every percentage in 0..100 and max_volume in 1..200, converting
\* the percentage to device units and back gives a percentage within 1 of it.
C12_RoundTrip ==
    \A t \in Tasks :
        (task[t].pc = "done" /\ task[t].method = "_convert_volume_to_percentage"
         /\ task[t].cmd.params.percentage <= 100
         /\ task[t].cmd.params.max_volume <= 200)
        => /\ task[t].result[2] - task[t].cmd.params.percentage <= 1
           /\ task[t].cmd.params.percentage - task[t].result[2] <= 1

\* 58 percent of max_volume 100 has come back as 56 percent, by way of 57
\* device units.
C12_Drift ==
    \E t \in Tasks :
        /\ task[t].pc = "done" /\ task[t].method = "_convert_volume_to_percentage"
        /\ task[t].cmd.params = [percentage |-> 58, max_volume |-> 100]
        /\ task[t].result = <<57, 56>>

\* C18: for every percentage in 0..100 and max_volume in 1..200,
\* _convert_percentage_to_volume returns round(percentage / 100 * max_volume)
\* clamped to [0, max_volume]: an integer of that range nearest to the exact
\* product (either neighbour when the product lies halfway).
C18_RoundedProduct ==
    \A t \in Tasks :
        (task[t].pc \in {"converted", "done"}
         /\ task[t].cmd.params.percentage <= 100
         /\ task[t].cmd.params.max_volume <= 200)
        => LET v == task[t].result[1]
               n == task[t].cmd.params.percentage * task[t].cmd.params.max_volume
           IN /\ 0 <= v /\ v <= task[t].cmd.params.max_volume
              /\ 100 * v - n <= 50
              /\ n - 100 * v <= 50

\* 19 percent of max_volume 10 (1.9 device units) has been converted to 1.
C18_Truncated ==
    \E t \in Tasks :
        /\ task[t].pc = "converted"
        /\ task[t].cmd.params = [percentage |-> 19, max_volume |-> 10]
        /\ task[t].result = <<1>>

\* C13: set_playback sends exactly one setPlayback request carrying toggle for
\* play_pause and the command itself for play, pause, stop, next, previous and
\* toggle; for any other input it raises InvalidParameterError and sends
\* nothing.
C13_PlaybackLiterals ==
    \A t \in Tasks :
        LET tk == task[t]
            x  == tk.cmd.params.playback
        IN tk.method = "set_playback"
           => IF x \in {"play_pause", "play", "pause", "stop", "next", "previous",
                        "toggle"}
              THEN /\ tk.nreq = 1
                   /\ tk.req = Req("setPlayback",
                                   [playback |-> IF x = "play_pause" THEN "toggle"
                                                 ELSE x])
              ELSE /\ tk.pc = "done" /\ tk.nreq = 0
                   /\ tk.exc = "InvalidParameterError"

\* set_playback("rewind") has raised InvalidParameterError without a request.
C13_Witness ==
    \E t \in Tasks :
        /\ task[t].method = "set_playback"
        /\ task[t].cmd.params.playback = "rewind"
        /\ task[t].pc = "done" /\ task[t].nreq = 0
        /\ task[t].exc = "InvalidParameterError"

\* set_playback("play_pause") has its one request in flight, carrying toggle.
C13_Toggle ==
    \E t \in Tasks :
        /\ task[t].method = "set_playback"
        /\ task[t].cmd.params.playback = "play_pause"
        /\ task[t].pc = "wait"
        /\ task[t].req = Req("setPlayback", [playback |-> "toggle"])

\* C14: every setRepeat request carries off, one or all and every setShuffle
\* request off or on, whether the client or the media player's REPEAT and
\* SHUFFLE commands issued it; set_repeat and set_shuffle called with another
\* value raise InvalidParameterError before any request, and with one of those
\* values send exactly one request carrying it.
C14_RepeatShuffleLiterals ==
    \A t \in Tasks :
        LET tk == task[t] IN
        /\ (tk.nreq > 0 /\ tk.req.ep = "setRepeat")
           => tk.req.params.repeat \in {"off", "one", "all"}
        /\ (tk.nreq > 0 /\ tk.req.ep = "setShuffle")
           => tk.req.params.shuffle \in {"off", "on"}
        /\ tk.method = "set_repeat"
           => IF tk.cmd.params.repeat \in {"off", "one", "all"}
              THEN tk.nreq = 1
                   /\ tk.req = Req("setRepeat", [repeat |-> tk.cmd.params.repeat])
              ELSE tk.pc = "done" /\ tk.nreq = 0 /\ tk.exc = "InvalidParameterError"
        /\ tk.method = "set_shuffle"
           => IF tk.cmd.params.shuffle \in {"off", "on"}
              THEN tk.nreq = 1
                   /\ tk.req = Req("setShuffle", [shuffle |-> tk.cmd.params.shuffle])
              ELSE tk.pc = "done" /\ tk.nreq = 0 /\ tk.exc = "InvalidParameterError"
        /\ (tk.method = "_handle_command" /\ tk.ent = "media_player"
            /\ tk.cmd.cmd_id \in {"repeat", "shuffle"} /\ tk.cmd.params # NoParams)
           => tk.nreq = 1 /\ tk.req.ep = (IF tk.cmd.cmd_id = "repeat" THEN "setRepeat"
                                          ELSE "setShuffle")

\* set_repeat("OFF"), the host's spelling, has raised InvalidParameterError
\* without a request.
C14_Witness ==
    \E t \in Tasks :
        /\ task[t].method = "set_repeat" /\ task[t].cmd.params.repeat = "OFF"
        /\ task[t].pc = "done" /\ task[t].nreq = 0
        /\ task[t].exc = "InvalidParameterError"

\* The media player's REPEAT command with the value ONE has setRepeat one in
\* flight.
C14_Command ==
    \E t \in Tasks :
        /\ task[t].method = "_handle_command" /\ task[t].ent = "media_player"
        /\ task[t].cmd = [cmd_id |-> "repeat", params |-> [repeat |-> "ONE"]]
        /\ task[t].pc = "wait"
        /\ task[t].req = Req("setRepeat", [repeat |-> "one"])

\* C15: when the request a command handler awaits ends in a network error, a
\* timeout or a status other than 200, _make_request raises
\* DeviceNotReachableError and nothing is sent again: the handler ends in that
\* step with SERVER_ERROR and the number of requests it has sent is unchanged.
C15_NoRetry ==
    [][\A t \in Tasks :
          (/\ task[t].pc = "wait"
           /\ task'[t] # task[t]
           /\ (task'[t].resp.net # "ok" \/ task'[t].resp.http # 200))
          => /\ task'[t].exc = "DeviceNotReachableError"
             /\ task'[t].pc = "done"
             /\ task'[t].status = "SERVER_ERROR"
             /\ task'[t].nreq = task[t].nreq]_vars

\* A handler's only request timed out and the handler returned SERVER_ERROR.
C15_Witness ==
    \E t \in Tasks :
        /\ task[t].pc = "done" /\ task[t].nreq = 1
        /\ task[t].resp.net = "TimeoutError"
        /\ task[t].exc = "DeviceNotReachableError"
        /\ task[t].status = "SERVER_ERROR"

\* C16: when the getFeatures request of initialize_sources fails, the method
\* raises nothing and leaves the media player with the SOURCE_LIST of the
\* hardcoded inputs (Spotify, Bluetooth, HDMI 1), which is not empty; when that
\* of get_available_inputs fails, the method raises nothing and returns the
\* hardcoded list of four inputs.
C16_FallbackInputs ==
    [][\A t \in Tasks :
          (/\ task[t].pc = "wait"
           /\ task'[t] # task[t]
           /\ ~(/\ task'[t].resp.net = "ok" /\ task'[t].resp.http = 200
                /\ task'[t].resp.has_code /\ task'[t].resp.code = 0))
          => /\ task[t].method = "initialize_sources"
                => /\ task'[t].pc = "done" /\ task'[t].exc = None
                   /\ mp'[task[t].dev].attributes.source_list
                          = << <<"S", "p", "o", "t", "i", "f", "y">>, <<"B", "l", "u", "e", "t", "o", "o", "t", "h">>, <<"H", "D", "M", "I", " ", "1">> >>
                   /\ Len(mp'[task[t].dev].sources) = 3
             /\ task[t].method = "get_available_inputs"
                => /\ task'[t].pc = "done" /\ task'[t].exc = None
                   /\ Len(task'[t].result[1]) = 4
                   /\ [i \in 1..4 |-> task'[t].result[1][i].name]
                          = << <<"S", "p", "o", "t", "i", "f", "y">>, <<"B", "l", "u", "e", "t", "o", "o", "t", "h">>, <<"H", "D", "M", "I", " ", "1">>, <<"A", "u", "d", "i", "o", " ", "1">> >>]_vars

\* initialize_sources is over after a getFeatures that timed out, and the
\* media player lists the three hardcoded sources.
C16_Witness ==
    \E t \in Tasks :
        /\ task[t].method = "initialize_sources" /\ task[t].pc = "done"
        /\ task[t].resp.net = "TimeoutError"
        /\ Len(mp[task[t].dev].attributes.source_list) = 3
        /\ ~caps[task[t].dev]

\* C17: for every input id the zone lists, get_available_inputs returns an
\* entry with a non-empty name: the table's name for a mapped id (hdmi1 is
\* HDMI 1, net_radio is Net Radio, spotify is Spotify), and for an unmapped id
\* the id with underscores as spaces and each word capitalised (my_custom_input
\* is My Custom Input).
C17_DisplayNames ==
    \A t \in Tasks :
        LET tk == task[t]
            ids == Features(tk.dev).input_list
            expected(id) ==
                CASE id = <<"h", "d", "m", "i", "1">> -> <<"H", "D", "M", "I", " ", "1">>
                  [] id = <<"n", "e", "t", "_", "r", "a", "d", "i", "o">> -> <<"N", "e", "t", " ", "R", "a", "d", "i", "o">>
                  [] id = <<"s", "p", "o", "t", "i", "f", "y">> -> <<"S", "p", "o", "t", "i", "f", "y">>
                  [] id = <<"m", "y", "_", "c", "u", "s", "t", "o", "m", "_", "i", "n", "p", "u", "t">> -> <<"M", "y", " ", "C", "u", "s", "t", "o", "m", " ", "I", "n", "p", "u", "t">>
        IN (/\ tk.method = "get_available_inputs" /\ tk.pc = "done"
            /\ (tk.cached \/ (tk.resp.net = "ok" /\ tk.resp.http = 200
                              /\ tk.resp.has_code /\ tk.resp.code = 0)))
           => /\ Len(tk.result[1]) = Len(ids)
              /\ \A i \in 1..Len(ids) :
                    /\ tk.result[1][i].id = ids[i]
                    /\ tk.result[1][i].name # << >>
                    /\ tk.result[1][i].name = expected(ids[i])

\* get_available_inputs has returned the entry My Custom Input for the
\* unmapped id my_custom_input.
C17_Witness ==
    \E t \in Tasks :
        /\ task[t].method = "get_available_inputs" /\ task[t].pc = "done"
        /\ Len(task[t].result[1]) = 3
        /\ task[t].result[1][3] = [id |-> <<"m", "y", "_", "c", "u", "s", "t", "o", "m", "_", "i", "n", "p", "u", "t">>,
                                   name |-> <<"M", "y", " ", "C", "u", "s", "t", "o", "m", " ", "I", "n", "p", "u", "t">>]

\* C19: set_volume sends one shape of setVolume request. With a volume given
\* (whatever else is given) it is volume=<the volume clamped to 0..max> alone,
\* max being the zone's volume range maximum in the features, 161 without one;
\* otherwise with direction up or down it is volume=<direction> and step=N, N
\* being the step given or 4; otherwise with a step given it is step=N alone;
\* otherwise InvalidParameterError is raised and nothing is sent.
C19_VolumeShapes ==
    \A t \in Tasks :
        LET tk  == task[t]
            a   == tk.cmd.params
            max == IF Features(tk.dev).has_volume_range
                   THEN Features(tk.dev).volume_max ELSE 161
            clamped == IF a.volume < 0 THEN 0
                       ELSE IF a.volume > max THEN max ELSE a.volume
        IN tk.method = "set_volume"
           => CASE "volume" \in DOMAIN a ->
                     /\ tk.nreq >= 1
                     /\ tk.req.ep \in {"getFeatures", "setVolume"}
                     /\ tk.req.ep = "setVolume"
                        => tk.req.params = [volume |-> [int |-> clamped]]
                     /\ (tk.pc = "done" /\ tk.exc = None) => tk.req.ep = "setVolume"
                [] "volume" \notin DOMAIN a /\ "direction" \in DOMAIN a
                   /\ a.direction \in {"up", "down"} ->
                     /\ tk.nreq = 1
                     /\ tk.req = Req("setVolume",
                                     [volume |-> [str |-> a.direction],
                                      step |-> IF "step" \in DOMAIN a THEN a.step
                                               ELSE 4])
                [] "volume" \notin DOMAIN a
                   /\ ~("direction" \in DOMAIN a /\ a.direction \in {"up", "down"})
                   /\ "step" \in DOMAIN a ->
                     /\ tk.nreq = 1
                     /\ tk.req = Req("setVolume", [step |-> a.step])
                [] OTHER ->
                     /\ tk.pc = "done" /\ tk.nreq = 0
                     /\ tk.exc = "InvalidParameterError"

\* set_volume(volume=250, step=2, direction="up") has returned True after a
\* setVolume request that carried the clamped volume and no step.
C19_Witness ==
    \E t \in Tasks :
        /\ task[t].method = "set_volume"
        /\ task[t].cmd.params = [volume |-> 250, step |-> 2, direction |-> "up"]
        /\ task[t].pc = "done" /\ task[t].result = <<TRUE>>
        /\ DOMAIN task[t].req.params = {"volume"}

\* C20: a call that begins with the features cached sends no getFeatures
\* request (get_features returns the cached features at once; set_volume,
\* get_available_inputs, get_available_sound_programs and initialize_sources
\* go on without fetching); a getFeatures answered with response_code 0 sets
\* the cache; a failed one leaves the cache as it was, and a call that begins
\* without the cache and needs the features starts with a getFeatures request.
C20_FeaturesCached ==
    [][\A t \in Tasks :
          LET old == task[t]
              tk  == task'[t]
              needs == \/ tk.method \in {"get_features", "get_available_inputs",
                                         "get_available_sound_programs",
                                         "initialize_sources"}
                       \/ (tk.method = "set_volume" /\ "volume" \in DOMAIN tk.cmd.params)
              ok == /\ tk.resp.net = "ok" /\ tk.resp.http = 200
                    /\ tk.resp.has_code /\ tk.resp.code = 0
          IN /\ (tk # old /\ tk.cached /\ tk.nreq > 0) => tk.req.ep # "getFeatures"
             /\ (tk # old /\ tk.cached /\ tk.method = "get_features")
                => (tk.pc = "done" /\ tk.nreq = 0 /\ tk.result = <<Features(tk.dev)>>)
             /\ (old.pc \in {"idle", "done"} /\ tk # old)
                => /\ tk.cached = caps[tk.dev]
                   /\ (~tk.cached /\ needs)
                      => (tk.pc = "wait" /\ tk.nreq = 1 /\ tk.req.ep = "getFeatures")
             /\ (old.pc = "wait" /\ old.req.ep = "getFeatures" /\ tk # old)
                => /\ ok => caps'[tk.dev]
                   /\ ~ok => caps'[tk.dev] = caps[tk.dev]
                   /\ (ok /\ tk.method = "get_features")
                      => tk.result = <<Features(tk.dev)>>]_vars

\* get_features has returned from the cache without a request.
C20_Witness ==
    \E t \in Tasks :
        /\ task[t].method = "get_features" /\ task[t].cached
        /\ task[t].pc = "done" /\ task[t].nreq = 0
        /\ task[t].result = <<Features(task[t].dev)>>

\* A getFeatures has failed, nothing is cached, and the next get_features has
\* its own getFeatures request in flight.
C20_FetchAgain ==
    \E t \in Tasks :
        /\ task[t].method = "get_features" /\ ~task[t].cached
        /\ task[t].pc = "wait" /\ task[t].req.ep = "getFeatures"
        /\ mp[task[t].dev].attributes.source_list # << >>
        /\ ~caps[task[t].dev]

\* The attributes a of a media player e after a successful update_attributes
\* show this status: STATE is STANDBY exactly when the zone is not on, VOLUME
\* is the percentage of the status volume, MUTED its mute flag and SOURCE the
\* display name of its input.
C21_ShowsStatus(a, e, status) ==
    /\ (a.state = "STANDBY") <=> (status.power # "on")
    /\ a.state \in {"STANDBY", "ON", "PLAYING", "PAUSED"}
    /\ a.volume = convert_volume_to_percentage(status.volume, status.max_volume)
    /\ a.muted = status.mute
    /\ a.source = CurrentSource(e.sources, status)

\* SOUND_MODE after a successful update_attributes is the display name of the
\* status's sound program.
C21_ShowsSoundProgram(a, status) ==
    a.sound_mode = DictGet(current_sound_mode_mapping, status.sound_program,
                           FallbackName(status.sound_program))

C21_SoundModeKept ==
    \E t \in Tasks :
        /\ task[t].refresh = "done"
        /\ mp[task[t].target].programs = << >>
        /\ task[t].snap.sound_program # << >>
        /\ mp[task[t].target].attributes.sound_mode = << >>

\* The attributes a after a successful update_attributes that fetched this
\* power and this playback state: the STATE the claim gives, and the six media
\* attributes present exactly in PLAYING and PAUSED.
C30_StateFor(a, power, playback) ==
    /\ power # "on" => a.state = "STANDBY"
    /\ (power = "on" /\ playback = "play") => a.state = "PLAYING"
    /\ (power = "on" /\ playback = "pause") => a.state = "PAUSED"
    /\ (power = "on" /\ playback \notin {"play", "pause"}) => a.state = "ON"
    /\ \A k \in MediaKeys : (k \in DOMAIN a) <=> (a.state \in {"PLAYING", "PAUSED"})

\* C30: in the step that ends a successful update_attributes (a deferred
\* update's or the periodic loop's), STATE becomes STANDBY when the fetched
\* power is not on, PLAYING when it is on and the fetched playback is play,
\* PAUSED when it is on and the playback is pause, ON otherwise; and the media
\* title, artist, album, image URL, duration and position are present exactly
\* when STATE is PLAYING or PAUSED.
C30_StateAndMedia ==
    [][\A m \in Devices :
          /\ \A t \in Tasks :
                 (/\ task[t].pc = "play_info" /\ task[t].target = m
                  /\ task'[t].refresh = "done")
                 => C30_StateFor(mp'[m].attributes, task[t].snap.power,
                                 device[m].playback)
          /\ (/\ periodic.pc = "play_info" /\ periodic'.pc \in {"status", "sleep"}
              /\ driver.media_players[periodic.idx] = m
              /\ m \notin periodic'.failed)
             => C30_StateFor(mp'[m].attributes, periodic.snap.power,
                             device[m].playback)]_vars

\* A deferred update has succeeded on a zone that is on and paused: STATE is
\* PAUSED and the media attributes are there.
C30_Witness ==
    \E t \in Tasks :
        /\ task[t].refresh = "done"
        /\ task[t].snap.power = "on"
        /\ device[task[t].target].playback = "pause"
        /\ mp[task[t].target].attributes.state = "PAUSED"
        /\ MediaKeys \subseteq DOMAIN mp[task[t].target].attributes

\* The periodic loop has refreshed a media player that showed PLAYING, after
\* its zone was switched off: STATE is STANDBY and the media attributes are
\* gone.
C30_Cleared ==
    /\ 2 \in periodic.polled \ periodic.failed
    /\ device[2].power # "on"
    /\ mp[2].attributes.state = "STANDBY"
    /\ MediaKeys \cap DOMAIN mp[2].attributes = {}

C22_CancelTerminates ==
    /\ [][periodic.cancel
          => /\ periodic'.cancel
             /\ periodic'.pc \in {periodic.pc, "done"}
             /\ periodic'.polled = periodic.polled
             /\ mp' = mp /\ host' = host]_vars
    /\ (periodic.cancel ~> periodic.pc = "done")

\* The task was cancelled while the update of the first media player awaited
\* its play info, and has ended: the status it held was never applied.
C22_Witness ==
    /\ periodic.pc = "done" /\ periodic.cancel
    /\ periodic.idx = 1 /\ periodic.snap = DeviceStatus(1, device[1])
    /\ periodic.polled = {}

\* The task was cancelled in its sleep after a full pass, and has ended.
C22_CancelledAsleep ==
    /\ periodic.pc = "done" /\ periodic.idx = 0
    /\ periodic.polled = Devices

\* C28: a UserDataResponse is handled as single-device configuration whenever
\* the most recent DriverSetupRequest had device_count 1, and as multi-device
\* IP collection only when the most recent DriverSetupRequest asked for more
\* than one device.
C28_HandledByLastRequest ==
    driver.setup.msg = "UserDataResponse"
    => /\ driver.setup.device_count = 1 => driver.setup.handled = "single"
       /\ driver.setup.handled = "collect_ips" => driver.setup.device_count > 1

\* The response of a single-device session was handled as IP collection, and
\* found no device to test: setup_state still has the step of an earlier
\* multi-device session.
C28_StaleStep ==
    /\ driver.setup.msg = "UserDataResponse"
    /\ driver.setup.device_count = 1
    /\ driver.setup_state = [step |-> "collect_ips", device_count |-> 2]
    /\ driver.setup.handled = "collect_ips"
    /\ driver.setup.action = "SetupError_CONNECTION_REFUSED"

\* C23: the runs of _initialize_integration are serialized by the lock (a
\* coroutine in the device loop holds it, so there is at most one); a run that
\* finds entities_ready set ends without creating a client or an entity and
\* without changing the integration's device state; and no device has more
\* than one media player registered.
C23_SerializedOnce ==
    [][/\ \A p \in DriverTasks :
              driver.init[p].pc = "devices" => driver.lock = p
       /\ \A p \in DriverTasks :
              (/\ driver.entities_ready
               /\ driver.init[p].pc \in {"lock", "devices"}
               /\ driver'.init[p] # driver.init[p])
              => /\ driver'.init[p].pc = EndPc(p)
                 /\ driver'.media_players = driver.media_players
                 /\ driver'.contacted = driver.contacted
                 /\ driver'.device_state = driver.device_state
                 /\ driver'.entities_ready
                 /\ mp' = mp /\ rm' = rm /\ caps' = caps
       /\ \A i, j \in 1..Len(driver.media_players) :
              driver.media_players[i] = driver.media_players[j] => i = j]_vars

\* The run a setup started found entities_ready set and has ended, with the
\* first device's entities as they were.
C23_Witness ==
    /\ driver.init["setup"].pc = "done"
    /\ driver.entities_ready /\ driver.lock = None
    /\ driver.media_players = <<1>>
    /\ driver.device_state = "CONNECTED"

\* One run is in the device loop, holding the lock, while two more wait for it.
C23_Waiting ==
    /\ driver.init["setup"].pc = "devices" /\ driver.lock = "setup"
    /\ driver.init["connect"].pc = "lock"
    /\ driver.init["subscribe"].pc = "lock"

C29_SetupErrors ==
    {"SetupError(OTHER)", "SetupError(CONNECTION_REFUSED)", "SetupError(error)"}

C29_OutOfRange(msg) ==
    \/ ~ParseInt(msg.selected_device).ok
    \/ ParseInt(msg.selected_device).value < 0
    \/ ParseInt(msg.selected_device).value >= Len(driver.discovered_devices)

C29_CompleteOnlyAfterTest ==
    /\ driver.action = "SetupComplete" =>
          /\ driver.msg.type = "UserConfirmationResponse" /\ driver.msg.confirm
          /\ driver.selected_device # << >>
          /\ driver.sent = "getStatus" /\ driver.to = driver.selected_device
          /\ MakeRequest(driver.resp) = "return"
    /\ (driver.msg.type = "UserConfirmationResponse" /\ ~driver.msg.confirm)
          => driver.action \in C29_SetupErrors
    /\ (driver.msg.type = "UserDataResponse" /\ driver.at = "manual_ip"
          /\ StrStrip(driver.msg.device_ip) = << >>)
          => driver.action \in C29_SetupErrors
    /\ (driver.msg.type = "UserDataResponse" /\ driver.at = "manual_ip"
          /\ driver.sent = "getDeviceInfo" /\ MakeRequest(driver.resp) # "return")
          => driver.action \in C29_SetupErrors
    /\ (driver.msg.type = "UserDataResponse" /\ driver.msg.device_ip = << >>
          /\ C29_OutOfRange(driver.msg))
          => driver.action \in C29_SetupErrors
    /\ driver.msg.type = "SetupDriver" => driver.action \in C29_SetupErrors

\* C29, witness: a positive confirmation completed the setup for the address
\* given in the manual form, after the final status request to it succeeded.
C29_Witness ==
    /\ driver.action = "SetupComplete"
    /\ driver.msg.type = "UserConfirmationResponse" /\ driver.msg.confirm
    /\ driver.at = "manual_ip"
    /\ driver.selected_device = IpAddress(1)
    /\ driver.sent = "getStatus" /\ driver.to = IpAddress(1)
    /\ MakeRequest(driver.resp) = "return"

\* C29, an error case happens: a blank manual IP, and an address that did not
\* answer although a device was selected before.
C29_Refused ==
    /\ driver.msg.type = "UserDataResponse" /\ driver.at = "manual_ip"
    /\ driver.selected_device # << >>
    /\ \/ driver.msg.device_ip = <<" ", " ">> /\ driver.action = "SetupError(OTHER)"
       \/ driver.sent = "getDeviceInfo" /\ driver.action = "SetupError(CONNECTION_REFUSED)"

====
